---- MODULE Spec2Model ----
(***************************************************************************)
(* A model of the SOP compliance engine: the scoring and gating functions  *)
(* of validation/metrics-config.ts, the score formulas of the validators,  *)
(* and the self-correction engine of validation/self-correction.ts.        *)
(*                                                                         *)
(* Numbers: scores are percentages (1.0 is 100), metric weights are        *)
(* counted in units of 0.05, and a quotient is kept as a pair num/den so   *)
(* that no rounding enters the model.                                      *)
(***************************************************************************)
EXTENDS Integers, Sequences, FiniteSets, TLC

VARIABLES
    mode,       \* which entry point of the engine this behaviour exercises
    pc,         \* where the call stands: "input" before it, "done" after it
    gIn,        \* evaluateGating / calculateWeightedScore: the arguments
    gOut,       \* evaluateGating / calculateWeightedScore: the returned values
    sIn,        \* validators: the numbers of findings a run collected
    sOut,       \* validators: the score each validator returns for them
    aIn,        \* applyFixes: the arguments
    aOut,       \* applyFixes: the returned CorrectionResult
    call,       \* runCorrectionLoop: the arguments content and config
    currentContent,     \* runCorrectionLoop: its local variables ...
    allViolations,
    iterations,
    correctionHistory,
    initialViolations,
    returned,   \* the CorrectionLoopResults returned so far, oldest first
    pIn,        \* one fix pattern on its own: the content and the pattern
    pOut,       \* ... the replaced content and what the validators find in it
    vIn,        \* a validator run: the files of the ValidationContext, in order
    vOut,       \* ... the ValidationResult of each validator
    catalog,    \* a process: the validators registry and the fix patterns
    modules,    \* ... the modules loaded so far
    invocations \* ... the validators each invocation ran, in order

gatingVars == <<gIn, gOut>>
scoreVars == <<sIn, sOut>>
applyVars == <<aIn, aOut>>
loopVars ==
    <<call, currentContent, allViolations, iterations, correctionHistory,
      initialViolations, returned>>

patternVars == <<pIn, pOut>>

validateVars == <<vIn, vOut>>

processVars == <<catalog, modules, invocations>>

vars ==
    <<mode, pc, gatingVars, scoreVars, applyVars, loopVars, patternVars, validateVars,
      processVars>>

None == "none"

\* the variables of the entry points a behaviour does not exercise
NoGating == gIn = None /\ gOut = None
NoScore == sIn = None /\ sOut = None
NoApply == aIn = None /\ aOut = None
NoPattern == pIn = None /\ pOut = None
NoValidate == vIn = None /\ vOut = None
NoProcess == catalog = None /\ modules = None /\ invocations = None
NoLoop ==
    /\ call = None
    /\ currentContent = None
    /\ allViolations = None
    /\ iterations = None
    /\ correctionHistory = None
    /\ initialViolations = None
    /\ returned = None

(***************************************************************************)
(* Bounds of the model.                                                    *)
(***************************************************************************)
MaxScored == 2      \* at most this many validators have a score in one run
MaxCount == 2       \* blocker and warning counts range over 0..MaxCount
MaxFindings == 3    \* findings of one kind in a validator run: 0..MaxFindings, and more

(***************************************************************************)
(* metrics-config.ts: METRIC_DEFINITIONS, in declaration order.            *)
(* weight is in units of 0.05, failT is thresholds.fail in percent.        *)
(***************************************************************************)
METRIC_DEFINITIONS ==
    << [name |-> "supabase-auth",     weight |-> 3, blockOnFail |-> TRUE,  failT |-> 90],
       [name |-> "tenant-isolation",  weight |-> 3, blockOnFail |-> TRUE,  failT |-> 90],
       [name |-> "audit-logging",     weight |-> 1, blockOnFail |-> FALSE, failT |-> 50],
       [name |-> "prisma-queries",    weight |-> 3, blockOnFail |-> TRUE,  failT |-> 80],
       [name |-> "transactions",      weight |-> 2, blockOnFail |-> TRUE,  failT |-> 80],
       [name |-> "code-safety",       weight |-> 1, blockOnFail |-> FALSE, failT |-> 60],
       [name |-> "exception-types",   weight |-> 2, blockOnFail |-> FALSE, failT |-> 70],
       [name |-> "logging",           weight |-> 1, blockOnFail |-> FALSE, failT |-> 60],
       [name |-> "external-services", weight |-> 1, blockOnFail |-> FALSE, failT |-> 50],
       [name |-> "job-processing",    weight |-> 1, blockOnFail |-> FALSE, failT |-> 50],
       [name |-> "api-design",        weight |-> 1, blockOnFail |-> TRUE,  failT |-> 80],
       [name |-> "code-quality",      weight |-> 1, blockOnFail |-> FALSE, failT |-> 50] >>

MetricNames == { METRIC_DEFINITIONS[i].name : i \in DOMAIN METRIC_DEFINITIONS }

DEFAULT_GATING_CONFIG ==
    [minimumScore |-> 85, blockOnBlockers |-> TRUE, failOnWarnings |-> FALSE,
     maxBlockers |-> 0, maxWarnings |-> 50]

STRICT_GATING_CONFIG ==
    [minimumScore |-> 95, blockOnBlockers |-> TRUE, failOnWarnings |-> TRUE,
     maxBlockers |-> 0, maxWarnings |-> 0]

\* getBlockingMetrics: the blockOnFail metrics, in declaration order
getBlockingMetrics == SelectSeq(METRIC_DEFINITIONS, LAMBDA m : m.blockOnFail)

\* scores.get(name) !== undefined
HasScore(scores, name) == name \in DOMAIN scores

(***************************************************************************)
(* calculateWeightedScore: the loop over METRIC_DEFINITIONS, accumulating  *)
(* weightedSum and totalWeight; the result is weightedSum / totalWeight,   *)
(* or 1.0 when totalWeight is 0.                                           *)
(***************************************************************************)
\* a plausible slip: the weight of a metric without a score still counts
RECURSIVE WeightedLoopAllWeights(_, _, _, _)
WeightedLoopAllWeights(scores, i, weightedSum, totalWeight) ==
    IF i > Len(METRIC_DEFINITIONS)
    THEN [weightedSum |-> weightedSum, totalWeight |-> totalWeight]
    ELSE LET metric == METRIC_DEFINITIONS[i]
         IN  IF HasScore(scores, metric.name)
             THEN WeightedLoopAllWeights(scores, i + 1,
                               weightedSum + scores[metric.name] * metric.weight,
                               totalWeight + metric.weight)
             ELSE WeightedLoopAllWeights(scores, i + 1, weightedSum,
                               totalWeight + metric.weight)

RECURSIVE WeightedLoop(_, _, _, _)
WeightedLoop(scores, i, weightedSum, totalWeight) ==
    IF i > Len(METRIC_DEFINITIONS)
    THEN [weightedSum |-> weightedSum, totalWeight |-> totalWeight]
    ELSE LET metric == METRIC_DEFINITIONS[i]
         IN  IF HasScore(scores, metric.name)
             THEN WeightedLoop(scores, i + 1,
                               weightedSum + scores[metric.name] * metric.weight,
                               totalWeight + metric.weight)
             ELSE WeightedLoop(scores, i + 1, weightedSum, totalWeight)

calculateWeightedScore(scores) ==
    LET acc == WeightedLoop(scores, 1, 0, 0)
    IN  IF acc.totalWeight > 0
        THEN [num |-> acc.weightedSum, den |-> acc.totalWeight]
        ELSE [num |-> 100, den |-> 1]

\* q < percent, for a quotient q = num/den with den > 0
QuotientBelow(q, percent) == q.num < percent * q.den

(***************************************************************************)
(* evaluateGating: four checks in sequence, each returning at once.        *)
(***************************************************************************)
\* the first blocking metric, in order, whose score is below its fail threshold
RECURSIVE FirstFailingBlocker(_, _)
FirstFailingBlocker(scores, i) ==
    IF i > Len(getBlockingMetrics) THEN None
    ELSE LET metric == getBlockingMetrics[i]
         IN  IF HasScore(scores, metric.name) /\ scores[metric.name] < metric.failT
             THEN metric.name
             ELSE FirstFailingBlocker(scores, i + 1)

Verdict(passed, reason, metric) ==
    [passed |-> passed, reason |-> reason, metric |-> metric]

\* a plausible slip: the warning check placed before the blocker check
evaluateGatingWarningsFirst(scores, blockerCount, warningCount, config) ==
    IF config.failOnWarnings /\ warningCount > config.maxWarnings
    THEN Verdict(FALSE, "warnings", None)
    ELSE IF config.blockOnBlockers /\ blockerCount > config.maxBlockers
    THEN Verdict(FALSE, "blockers", None)
    ELSE IF FirstFailingBlocker(scores, 1) # None
    THEN Verdict(FALSE, "metric", FirstFailingBlocker(scores, 1))
    ELSE IF QuotientBelow(calculateWeightedScore(scores), config.minimumScore)
    THEN Verdict(FALSE, "total", None)
    ELSE Verdict(TRUE, None, None)

evaluateGating(scores, blockerCount, warningCount, config) ==
    IF config.blockOnBlockers /\ blockerCount > config.maxBlockers
    THEN Verdict(FALSE, "blockers", None)
    ELSE IF config.failOnWarnings /\ warningCount > config.maxWarnings
    THEN Verdict(FALSE, "warnings", None)
    ELSE IF FirstFailingBlocker(scores, 1) # None
    THEN Verdict(FALSE, "metric", FirstFailingBlocker(scores, 1))
    ELSE IF QuotientBelow(calculateWeightedScore(scores), config.minimumScore)
    THEN Verdict(FALSE, "total", None)
    ELSE Verdict(TRUE, None, None)

(***************************************************************************)
(* The inputs of the scoring and gating functions.                         *)
(***************************************************************************)
\* the keys a scores map can hold: the metric names and, from the CLI, the
\* general-practices validator, which METRIC_DEFINITIONS does not list
ScoreKeys == MetricNames \cup {"general-practices"}
ScoreValues == {0, 82, 100}
ScoreMaps ==
    UNION { [D -> ScoreValues] :
            D \in { S \in SUBSET ScoreKeys : Cardinality(S) <= MaxScored } }
GatingConfigs ==
    [minimumScore : {85, 95}, blockOnBlockers : BOOLEAN, failOnWarnings : BOOLEAN,
     maxBlockers : {0}, maxWarnings : {0}]
    \cup {DEFAULT_GATING_CONFIG, STRICT_GATING_CONFIG,
          [DEFAULT_GATING_CONFIG EXCEPT !.maxBlockers = 1]}
Counts == 0 .. MaxCount

GatingInputs ==
    [scores : ScoreMaps, blockerCount : Counts, warningCount : Counts,
     config : GatingConfigs]

InitGating ==
    /\ mode = "gating"
    /\ pc = "input"
    /\ gIn \in GatingInputs
    /\ gOut = None
    /\ NoScore
    /\ NoApply
    /\ NoLoop
    /\ NoPattern
    /\ NoValidate
    /\ NoProcess

\* one call of evaluateGating and of calculateWeightedScore on the same scores
EvaluateGating ==
    /\ mode = "gating"
    /\ pc = "input"
    /\ pc' = "done"
    /\ gOut' = [verdict |-> evaluateGating(gIn.scores, gIn.blockerCount,
                                           gIn.warningCount, gIn.config),
                total |-> calculateWeightedScore(gIn.scores)]
    /\ UNCHANGED <<mode, gIn, scoreVars, applyVars, loopVars, patternVars, validateVars, processVars>>

NextGating == EvaluateGating

SpecGating == InitGating /\ [][NextGating]_vars

(***************************************************************************)
(* What the gating policy and the aggregate are, stated over the set of    *)
(* scored metrics rather than by the code's loops.                         *)
(***************************************************************************)
MetricOf(name) == CHOOSE m \in { METRIC_DEFINITIONS[i] : i \in DOMAIN METRIC_DEFINITIONS } : m.name = name

ScoredMetrics(scores) == MetricNames \cap DOMAIN scores

RECURSIVE SumOver(_, _)
SumOver(S, f) ==
    IF S = {} THEN 0
    ELSE LET x == CHOOSE y \in S : TRUE IN f[x] + SumOver(S \ {x}, f)

BlockerCheckFails(in) ==
    in.config.blockOnBlockers /\ in.blockerCount > in.config.maxBlockers
WarningCheckFails(in) ==
    in.config.failOnWarnings /\ in.warningCount > in.config.maxWarnings
FailingBlockers(in) ==
    { n \in ScoredMetrics(in.scores) :
        MetricOf(n).blockOnFail /\ in.scores[n] < MetricOf(n).failT }
PositionOf(name) == CHOOSE i \in DOMAIN METRIC_DEFINITIONS : METRIC_DEFINITIONS[i].name = name
TotalCheckFails(in) ==
    LET S == ScoredMetrics(in.scores)
        W == [n \in S |-> MetricOf(n).weight]
        SW == [n \in S |-> in.scores[n] * MetricOf(n).weight]
    IN  IF S = {} THEN 100 < in.config.minimumScore
        ELSE SumOver(S, SW) < in.config.minimumScore * SumOver(S, W)

\* C1: evaluateGating reports the first failing check, in the order blocker
\* count, warning count, blocking metric below its fail threshold, aggregate
\* below minimumScore; a later step's reason is reported only when every
\* earlier step's condition is false, and the run passes only when none fails.
GatingFirstFailingCheckWins ==
    pc = "done" =>
        LET v == gOut.verdict
            c1 == BlockerCheckFails(gIn)
            c2 == WarningCheckFails(gIn)
            c3 == FailingBlockers(gIn) # {}
            c4 == TotalCheckFails(gIn)
        IN  /\ (v.reason = "blockers") = c1
            /\ (v.reason = "warnings") = (~c1 /\ c2)
            /\ (v.reason = "metric") = (~c1 /\ ~c2 /\ c3)
            /\ (v.reason = "total") = (~c1 /\ ~c2 /\ ~c3 /\ c4)
            /\ v.passed = (~c1 /\ ~c2 /\ ~c3 /\ ~c4)
            /\ v.passed = (v.reason = None)
            /\ v.reason = "metric" =>
                 /\ v.metric \in FailingBlockers(gIn)
                 /\ \A n \in FailingBlockers(gIn) : PositionOf(v.metric) <= PositionOf(n)

\* a run in which the blocker check and a later check both fail, and one
\* (Scenario D) in which only the aggregate check fails
GatingWitness ==
    /\ pc = "done"
    /\ BlockerCheckFails(gIn) /\ WarningCheckFails(gIn) /\ FailingBlockers(gIn) # {}
    /\ gOut.verdict.reason = "blockers"

\* C2: the aggregate is sum(score * weight) / sum(weight) over exactly the
\* metrics that have a score; one without a score adds to neither sum, and
\* with no scored metric the aggregate is 1.0.
WeightedScoreNormalised ==
    pc = "done" =>
        LET S == ScoredMetrics(gIn.scores)
            W == [n \in S |-> MetricOf(n).weight]
            SW == [n \in S |-> gIn.scores[n] * MetricOf(n).weight]
        IN  IF S = {}
            THEN gOut.total = [num |-> 100, den |-> 1]
            ELSE gOut.total = [num |-> SumOver(S, SW), den |-> SumOver(S, W)]

\* two scored metrics of different weights and different scores
WeightedScoreWitness ==
    /\ pc = "done"
    /\ \E a, b \in ScoredMetrics(gIn.scores) :
         /\ MetricOf(a).weight # MetricOf(b).weight
         /\ gIn.scores[a] # gIn.scores[b]
    /\ gOut.total.den < SumOver(MetricNames, [n \in MetricNames |-> MetricOf(n).weight])

(***************************************************************************)
(* The validators' scores. A run of a validator ends by computing its      *)
(* score from the findings it collected: f.critical, f.high and f.medium   *)
(* are the numbers of violations of each severity, f.warnings the number   *)
(* of warnings, f.nest and f.generic the numbers of NestJS and of generic  *)
(* throws counted by validateExceptionTypes. A score is a quotient         *)
(* num/den; a penalty of 0.3 is 30 over 100.                               *)
(***************************************************************************)
Percent(n) == [num |-> n, den |-> 100]

\* an unclamped difference, the slip the clamp guards against
NoClamp(x) == x

\* Math.max(0, x)
MathMax0(x) == IF x < 0 THEN 0 ELSE x

ViolationCount(f) == f.critical + f.high + f.medium

validateSupabaseAuthScore(f) ==
    IF ViolationCount(f) = 0 THEN Percent(100)
    ELSE Percent(MathMax0(100 - ViolationCount(f) * 20))

validateTenantIsolationScore(f) ==
    Percent(MathMax0(100 - f.critical * 30 - f.high * 15))

validatePrismaQueriesScore(f) ==
    Percent(MathMax0(100 - f.critical * 30 - f.high * 15 - f.medium * 5))

validateTransactionsScore(f) ==
    IF ViolationCount(f) = 0 THEN Percent(100)
    ELSE Percent(MathMax0(100 - ViolationCount(f) * 20))

validateCodeSafetyPatternsScore(f) ==
    IF ViolationCount(f) = 0 THEN Percent(100)
    ELSE Percent(MathMax0(100 - ViolationCount(f) * 15))

validateExceptionTypesScore(f) ==
    LET totalThrows == f.nest + f.generic
    IN  IF totalThrows = 0 THEN Percent(100)
        ELSE [num |-> f.nest, den |-> totalThrows]

validateLoggingScore(f) ==
    IF f.critical = 0 THEN Percent(100)
    ELSE Percent(MathMax0(100 - f.critical * 30))

validateExternalServicePatternsScore(f) ==
    Percent(MathMax0(100 - ViolationCount(f) * 20 - f.warnings * 5))

validateJobProcessingScore(f) ==
    Percent(MathMax0(100 - ViolationCount(f) * 20 - f.warnings * 10))

validateApiDesignScore(f) ==
    IF f.critical = 0 THEN Percent(100)
    ELSE Percent(MathMax0(100 - f.critical * 25))

validateCodeQualityScore(f) ==
    Percent(MathMax0(100 - ViolationCount(f) * 10 - f.warnings * 2))

validateAuditLoggingScore(f) ==
    IF f.warnings = 0 THEN Percent(100)
    ELSE Percent(MathMax0(100 - f.warnings * 10))

validateGeneralPracticesScore(f) ==
    Percent(MathMax0(100 - f.critical * 30 - f.high * 10 - f.warnings * 2))

ValidatorNames == MetricNames \cup {"general-practices"}

ScoreOf(name, f) ==
    CASE name = "supabase-auth"     -> validateSupabaseAuthScore(f)
      [] name = "tenant-isolation"  -> validateTenantIsolationScore(f)
      [] name = "audit-logging"     -> validateAuditLoggingScore(f)
      [] name = "prisma-queries"    -> validatePrismaQueriesScore(f)
      [] name = "transactions"      -> validateTransactionsScore(f)
      [] name = "code-safety"       -> validateCodeSafetyPatternsScore(f)
      [] name = "exception-types"   -> validateExceptionTypesScore(f)
      [] name = "logging"           -> validateLoggingScore(f)
      [] name = "external-services" -> validateExternalServicePatternsScore(f)
      [] name = "job-processing"    -> validateJobProcessingScore(f)
      [] name = "api-design"        -> validateApiDesignScore(f)
      [] name = "code-quality"      -> validateCodeQualityScore(f)
      [] name = "general-practices" -> validateGeneralPracticesScore(f)

\* numbers of findings: the small ones, and some large enough that every
\* validator's penalties exceed 1.0
FindingCounts == (0 .. MaxFindings) \cup {11, 51}
ThrowCounts == 0 .. MaxFindings
FindingInputs ==
    [critical : FindingCounts, high : FindingCounts, medium : FindingCounts,
     warnings : FindingCounts, nest : ThrowCounts, generic : ThrowCounts]

InitScore ==
    /\ mode = "score"
    /\ pc = "input"
    /\ sIn \in FindingInputs
    /\ sOut = None
    /\ NoGating
    /\ NoApply
    /\ NoLoop
    /\ NoPattern
    /\ NoValidate
    /\ NoProcess

\* every validator computes its score for the findings
ComputeScores ==
    /\ mode = "score"
    /\ pc = "input"
    /\ pc' = "done"
    /\ sOut' = [name \in ValidatorNames |-> ScoreOf(name, sIn)]
    /\ UNCHANGED <<mode, sIn, gatingVars, applyVars, loopVars, patternVars, validateVars, processVars>>

NextScore == ComputeScores

SpecScore == InitScore /\ [][NextScore]_vars

\* C3: whatever the numbers of findings, every validator's score is in [0, 1]
ScoreInUnitInterval ==
    pc = "done" =>
        \A name \in ValidatorNames :
            /\ sOut[name].den > 0
            /\ 0 <= sOut[name].num
            /\ sOut[name].num <= sOut[name].den

\* findings whose penalties exceed 1.0 in every validator that subtracts
\* penalties, with a mixed record of throws
ScoreWitness ==
    /\ pc = "done"
    /\ \A name \in ValidatorNames \ {"exception-types"} : sOut[name].num = 0
    /\ sIn.nest > 0 /\ sIn.generic > 0

(***************************************************************************)
(* Source text. A text is a sequence of tokens, the token NL standing for  *)
(* a line break; a token is a piece of text that the engine's regular      *)
(* expressions treat as a unit. The vocabulary:                            *)
(*   "const x = 1;"  "// deleted_at"                                       *)
(*   "throw new Error(" msg ")" ";"      msg a quoted message              *)
(*   "throw new NotFoundException(" ...  (and the other NestJS exceptions) *)
(*   "console.log(" arg ")" ";"          (log, error, warn, debug, info)   *)
(*   "this.logger.log(" arg ")" ";"                                        *)
(*   "new Logger(" "'Svc'" ")" ";"                                         *)
(*   "import {" name "," name "} from '@nestjs/common'" ";"                *)
(*   "prisma.teams.findMany(" "{ where: {" "id" "}" "})" ";"               *)
(*     (also prisma.teams.findFirst( and prisma.users.findMany( )          *)
(* White space inside a line is not represented. The vocabulary has no     *)
(* jwt.decode call, loop, .length, hard delete, multi-table mutation or    *)
(* hard-coded secret, so the checks for those never fire on these texts    *)
(* and are left out of the validators below.                               *)
(***************************************************************************)
NL == "\n"

\* content.split('\n')
RECURSIVE SplitLoop(_, _, _, _)
SplitLoop(text, i, done, cur) ==
    IF i > Len(text) THEN Append(done, cur)
    ELSE IF text[i] = NL THEN SplitLoop(text, i + 1, Append(done, cur), <<>>)
    ELSE SplitLoop(text, i + 1, done, Append(cur, text[i]))

Split(text) == SplitLoop(text, 1, <<>>, <<>>)

\* lines.join('\n')
RECURSIVE JoinFrom(_, _)
JoinFrom(lines, i) ==
    IF i > Len(lines) THEN <<>>
    ELSE IF i = Len(lines) THEN lines[i]
    ELSE lines[i] \o <<NL>> \o JoinFrom(lines, i + 1)

Join(lines) == JoinFrom(lines, 1)

\* The element of a singleton set. { e(x) : x \in {v} } computes v once and
\* names it x in e, where a LET would compute v at every use of the name
\* when TLC evaluates ENABLED.
Only(S) == CHOOSE x \in S : TRUE

\* text.split('\n')[n - 1] || ''
LineAt(text, n) ==
    LET lines == Split(text)
    IN  IF n >= 1 /\ n <= Len(lines) THEN lines[n] ELSE <<>>

Tokens(seq) == { seq[i] : i \in DOMAIN seq }

\* lines[from .. to] joined into one block, as the look-ahead loops build it
RECURSIVE Block(_, _, _)
Block(lines, from, to) ==
    IF from > to THEN <<>> ELSE lines[from] \o Block(lines, from + 1, to)

Min(a, b) == IF a < b THEN a ELSE b

(***************************************************************************)
(* What the validators' regular expressions and substring tests see in a   *)
(* token.                                                                  *)
(***************************************************************************)
\* /throw\s+new\s+Error\(/
IsThrowError(t) == t = "throw new Error("

\* /console\.(log|debug|error|warn|info)\(/
ConsoleCalls ==
    {"console.log(", "console.debug(", "console.error(", "console.warn(", "console.info("}

\* /console\.(log|debug|error|warn)\(/, as validateSupabaseAuth spells it
ConsoleCallsNoInfo == ConsoleCalls \ {"console.info("}

\* /logger\.(log|debug|error|warn)\(/
LoggerCalls ==
    {"this.logger.log(", "this.logger.debug(", "this.logger.error(", "this.logger.warn("}

\* /token/i, /jwt/i and /password|secret|token|apiKey|api_key|jwt/i
HasToken(t) == t = "token"
HasJwt(t) == t = "jwt"
IsSensitive(t) == t \in {"password", "secret", "token", "apiKey", "api_key", "jwt"}

\* /prisma\.(\w+)\.(findMany|findFirst|findUnique|count|aggregate)/ and the
\* entity it captures
PrismaQueryEntity ==
    [t \in {"prisma.teams.findMany(", "prisma.teams.findFirst(", "prisma.users.findMany("} |->
        IF t = "prisma.users.findMany(" THEN "users" ELSE "teams"]
IsPrismaQuery(t) == t \in DOMAIN PrismaQueryEntity

\* softDeleteEntities.some(e => entity.includes(e)), for the entities above
softDeleteEntities ==
    {"organizations", "organization_users", "organization_roles", "teams",
     "rubrics", "role_plays", "tracks"}

\* /\.findMany\(/
IsFindMany(t) == t \in {"prisma.teams.findMany(", "prisma.users.findMany("}

\* includes('deleted_at'), includes('orderBy')
HasDeletedAt(t) == t \in {"deleted_at: null", "// deleted_at"}
HasOrderBy(t) == t = "orderBy: { created_at: 'desc' }"

\* line.includes('});'): a "})" directly followed by ";"
EndsStatement(line) ==
    \E i \in 1 .. Len(line) - 1 : line[i] = "})" /\ line[i + 1] = ";"

\* a call of one of `calls` followed, later on the line, by a token with `word`
CallThenWord(line, calls, word(_)) ==
    \E i, j \in DOMAIN line : i < j /\ line[i] \in calls /\ word(line[j])

WhereBlockLines == 10     \* validateTenantIsolation looks ahead 10 lines
QueryBlockLines == 15     \* validatePrismaQueries looks ahead 15 lines

\* the look-ahead loop: lines index .. index + span - 1, stopping after the
\* first line that ends a statement; index is 1-based here
RECURSIVE LookAheadEnd(_, _, _)
LookAheadEnd(lines, i, last) ==
    IF i >= last THEN last
    ELSE IF EndsStatement(lines[i]) THEN i
    ELSE LookAheadEnd(lines, i + 1, last)

LookAhead(lines, index, span) ==
    Block(lines, index, LookAheadEnd(lines, index, Min(index + span - 1, Len(lines))))

Violation(rule, line, severity) == [rule |-> rule, line |-> line, severity |-> severity]

\* the findings of all lines, in line order
RECURSIVE FlattenFrom(_, _)
FlattenFrom(seqs, i) ==
    IF i > Len(seqs) THEN <<>> ELSE seqs[i] \o FlattenFrom(seqs, i + 1)

Flatten(seqs) == Only({ FlattenFrom(found, 1) : found \in { seqs } })

\* validateSupabaseAuth: JWT/token logging
SupabaseAuthLine(lines, i) ==
    IF \/ CallThenWord(lines[i], LoggerCalls, HasToken)
       \/ CallThenWord(lines[i], ConsoleCallsNoInfo, HasJwt)
    THEN << Violation("INV-SUPABASE-8", i, "critical") >>
    ELSE <<>>

validateSupabaseAuth(lines) ==
    Flatten([i \in 1 .. Len(lines) |-> SupabaseAuthLine(lines, i)])

\* validateTenantIsolation: a query on a soft-delete entity whose where block
\* has no deleted_at
TenantIsolationLine(lines, i) ==
    LET queries == SelectSeq(lines[i], IsPrismaQuery)
    IN  IF /\ queries # <<>>
           /\ PrismaQueryEntity[queries[1]] \in softDeleteEntities
           /\ ~ \E t \in Tokens(LookAhead(lines, i, WhereBlockLines)) : HasDeletedAt(t)
        THEN << Violation("INV-PRISMA-SOFT-DELETE", i, "high") >>
        ELSE <<>>

validateTenantIsolation(lines) ==
    Flatten([i \in 1 .. Len(lines) |-> TenantIsolationLine(lines, i)])

\* validatePrismaQueries: a findMany whose query block has no orderBy
PrismaQueriesLine(lines, i) ==
    IF /\ \E t \in Tokens(lines[i]) : IsFindMany(t)
       /\ ~ \E t \in Tokens(LookAhead(lines, i, QueryBlockLines)) : HasOrderBy(t)
    THEN << Violation("INV-PRISMA-ORDERBY", i, "medium") >>
    ELSE <<>>

validatePrismaQueries(lines) ==
    Flatten([i \in 1 .. Len(lines) |-> PrismaQueriesLine(lines, i)])

\* validateExceptionTypes: generic Error, console.*, sensitive data in a log
ExceptionTypesLine(lines, i) ==
    LET line == lines[i]
    IN  (IF \E t \in Tokens(line) : IsThrowError(t)
         THEN << Violation("INV-ERROR-TYPE", i, "medium") >> ELSE <<>>)
        \o
        (IF \E t \in Tokens(line) : t \in ConsoleCalls
         THEN << Violation("INV-LOGGER", i, "medium") >> ELSE <<>>)
        \o
        (IF /\ \E t \in Tokens(line) : t \in LoggerCalls
            /\ \E t \in Tokens(line) : IsSensitive(t)
         THEN << Violation("INV-LOG-SENSITIVE", i, "critical") >> ELSE <<>>)

validateExceptionTypes(lines) ==
    Flatten([i \in 1 .. Len(lines) |-> ExceptionTypesLine(lines, i)])

\* for (const validator of Object.values(validators)): the violations of the
\* validators in registry order (the others find none in this vocabulary)
AllViolations(text) ==
    Only({ validateSupabaseAuth(lines) \o validateTenantIsolation(lines)
           \o validatePrismaQueries(lines) \o validateExceptionTypes(lines) :
           lines \in { Split(text) } })

(***************************************************************************)
(* The fix patterns. A pattern's regular expression is modelled by the     *)
(* token sequences it matches and its replacement by the tokens it writes; *)
(* every pattern is global, so a replacement scans the text from left to   *)
(* right and rewrites each match.                                          *)
(***************************************************************************)
\* the quoted messages of the vocabulary and the words the three
\* INV-ERROR-TYPE expressions look for in them (case-insensitively)
MessageWords ==
    [m \in {"'X not found'", "'invalid input'", "'access denied'", "'boom'"} |->
        CASE m = "'X not found'"   -> {"not found"}
          [] m = "'invalid input'" -> {"invalid"}
          [] m = "'access denied'" -> {"denied"}
          [] OTHER                 -> {}]
Messages == DOMAIN MessageWords

\* a token with a '}' in it: where [^}]+ stops
ContainsBrace(t) ==
    t \in {"}", "})", "} from '@nestjs/common'", "orderBy: { created_at: 'desc' }"}

\* the index of the first token from i on that has a '}', or 0
RECURSIVE FirstBrace(_, _)
FirstBrace(text, i) ==
    IF i > Len(text) THEN 0
    ELSE IF ContainsBrace(text[i]) THEN i
    ELSE FirstBrace(text, i + 1)

FIX_PATTERNS ==
    << [rule |-> "INV-ERROR-TYPE", pattern |-> "not found",
        replacement |-> "throw new NotFoundException(",
        description |-> "Replace generic Error with NotFoundException"],
       [rule |-> "INV-ERROR-TYPE", pattern |-> "invalid",
        replacement |-> "throw new BadRequestException(",
        description |-> "Replace generic Error with BadRequestException"],
       [rule |-> "INV-ERROR-TYPE", pattern |-> "denied",
        replacement |-> "throw new ForbiddenException(",
        description |-> "Replace generic Error with ForbiddenException"],
       [rule |-> "INV-LOGGER", pattern |-> "console.log(",
        replacement |-> "this.logger.log(",
        description |-> "Replace console.log with Logger"],
       [rule |-> "INV-LOGGER", pattern |-> "console.error(",
        replacement |-> "this.logger.error(",
        description |-> "Replace console.error with Logger"],
       [rule |-> "INV-LOGGER", pattern |-> "console.warn(",
        replacement |-> "this.logger.warn(",
        description |-> "Replace console.warn with Logger"],
       [rule |-> "INV-LOGGER", pattern |-> "console.debug(",
        replacement |-> "this.logger.debug(",
        description |-> "Replace console.debug with Logger"],
       [rule |-> "INV-PRISMA-SOFT-DELETE", pattern |-> "where", replacement |-> "deleted_at",
        description |-> "Add deleted_at: null filter"],
       [rule |-> "INV-PRISMA-ORDERBY", pattern |-> "findMany", replacement |-> "orderBy",
        description |-> "Add orderBy clause to findMany"] >>

\* /throw\s+new\s+Error\(\s*['"]([^'"]*WORD[^'"]*)['"][\s)]/gi
\*   -> "throw new XException('$1')"
RECURSIVE ReplaceThrow(_, _, _, _)
ReplaceThrow(text, i, word, replacement) ==
    IF i > Len(text) THEN <<>>
    ELSE IF /\ i + 2 <= Len(text)
            /\ text[i] = "throw new Error("
            /\ text[i + 1] \in Messages
            /\ word \in MessageWords[text[i + 1]]
            /\ text[i + 2] = ")"
         THEN << replacement, text[i + 1], ")" >> \o ReplaceThrow(text, i + 3, word, replacement)
         ELSE << text[i] >> \o ReplaceThrow(text, i + 1, word, replacement)

\* /console\.log\(/g -> 'this.logger.log(' and its three siblings
ReplaceCall(text, name, replacement) ==
    [i \in DOMAIN text |-> IF text[i] = name THEN replacement ELSE text[i]]

\* prisma\.(organizations|teams|rubrics|role_plays)\.find\w+\(
SoftDeleteFindCalls == {"prisma.teams.findMany(", "prisma.teams.findFirst("}

\* the end of a match of `call( { where: { [^}]+ } })` starting at i, that is
\* the index of its "})", or 0 when there is no match at i
WhereMatchEnd(text, i, calls) ==
    LET j == FirstBrace(text, i + 2)
    IN  IF /\ i + 1 <= Len(text)
           /\ text[i] \in calls
           /\ text[i + 1] = "{ where: {"
           /\ j > i + 2
           /\ j + 1 <= Len(text)
           /\ text[j] = "}"
           /\ text[j + 1] = "})"
        THEN j + 1 ELSE 0

\* conditions.trim().replace(/,?\s*$/, ''): the conditions of the
\* vocabulary neither start nor end with white space
StripTrailingComma(conditions) ==
    IF conditions[Len(conditions)] = ","
    THEN SubSeq(conditions, 1, Len(conditions) - 1)
    ELSE conditions

\* the INV-PRISMA-SOFT-DELETE replacement function
RECURSIVE AddDeletedAt(_, _)
AddDeletedAt(text, i) ==
    IF i > Len(text) THEN <<>>
    ELSE LET e == WhereMatchEnd(text, i, SoftDeleteFindCalls)
             conditions == SubSeq(text, i + 2, e - 2)
         IN  IF e = 0 THEN << text[i] >> \o AddDeletedAt(text, i + 1)
             ELSE IF \E t \in Tokens(conditions) : HasDeletedAt(t)
                  THEN SubSeq(text, i, e) \o AddDeletedAt(text, e + 1)
                  ELSE SubSeq(text, i, i + 1)
                       \o StripTrailingComma(conditions)
                       \o << ",", NL, "deleted_at: null", "," >>
                       \o << "}", "})" >>
                       \o AddDeletedAt(text, e + 1)

\* /(\.findMany\(\s*{\s*where:\s*{[^}]+}\s*)(}\))/g
\*   -> "$1,\n    orderBy: { created_at: 'desc' },\n  $2"
RECURSIVE AddOrderBy(_, _)
AddOrderBy(text, i) ==
    IF i > Len(text) THEN <<>>
    ELSE LET e == WhereMatchEnd(text, i, {t \in DOMAIN PrismaQueryEntity : IsFindMany(t)})
         IN  IF e = 0 THEN << text[i] >> \o AddOrderBy(text, i + 1)
             ELSE SubSeq(text, i, e - 1)
                  \o << ",", NL, "orderBy: { created_at: 'desc' }", ",", NL >>
                  \o << "})" >>
                  \o AddOrderBy(text, e + 1)

\* corrected.replace(pattern.pattern, pattern.replacement)
Replace(text, p) ==
    CASE p.rule = "INV-ERROR-TYPE"         -> ReplaceThrow(text, 1, p.pattern, p.replacement)
      [] p.rule = "INV-LOGGER"             -> ReplaceCall(text, p.pattern, p.replacement)
      [] p.rule = "INV-PRISMA-SOFT-DELETE" -> AddDeletedAt(text, 1)
      [] p.rule = "INV-PRISMA-ORDERBY"     -> AddOrderBy(text, 1)

(***************************************************************************)
(* applyFixes. A configuration is a record with the fields maxIterations   *)
(* and autoFix and, optionally, fixRules and skipRules (sequences of rule  *)
(* names); an optional field that is not given is absent from the record.  *)
(***************************************************************************)
Includes(list, x) == \E i \in DOMAIN list : list[i] = x

\* config.skipRules?.includes(pattern.rule)
SkipsRule(config, rule) ==
    "skipRules" \in DOMAIN config /\ Includes(config.skipRules, rule)

\* config.fixRules && !config.fixRules.includes(pattern.rule): an empty
\* fixRules is given, and includes nothing
NotInFixRules(config, rule) ==
    "fixRules" \in DOMAIN config /\ ~ Includes(config.fixRules, rule)

\* violationsByRule.get(rule) || []
ViolationsOf(violations, rule) == SelectSeq(violations, LAMBDA v : v.rule = rule)

\* the three `continue` tests of the pattern loop
PatternApplies(p, violations, config) ==
    /\ ~ SkipsRule(config, p.rule)
    /\ ~ NotInFixRules(config, p.rule)
    /\ ViolationsOf(violations, p.rule) # <<>>

AppliedFix(rule, line, description, before, after) ==
    [rule |-> rule, line |-> line, description |-> description,
     before |-> before, after |-> after]

\* the effect of one pattern on st once its replacement gave `after`
Replaced(p, st, after, affected) ==
    [corrected |-> after,
     appliedFixes |-> st.appliedFixes \o
        (IF after = st.corrected THEN <<>>
         ELSE [k \in DOMAIN affected |->
                 AppliedFix(p.rule, affected[k].line, p.description,
                            LineAt(st.corrected, affected[k].line),
                            LineAt(after, affected[k].line))]),
     steps |-> Append(st.steps, after)]

\* the pattern loop without its skipRules test
PatternStepIgnoringSkipRules(p, st, violations, config) ==
    IF /\ ~ NotInFixRules(config, p.rule)
       /\ ViolationsOf(violations, p.rule) # <<>>
    THEN Only({ Replaced(p, st, after, affected) :
                after \in { Replace(st.corrected, p) },
                affected \in { ViolationsOf(violations, p.rule) } })
    ELSE [st EXCEPT !.steps = Append(@, st.corrected)]

\* one turn of `for (const pattern of FIX_PATTERNS)`; st carries corrected,
\* appliedFixes and, for the record, the text after each pattern so far
PatternStep(p, st, violations, config) ==
    IF PatternApplies(p, violations, config)
    THEN Only({ Replaced(p, st, after, affected) :
                after \in { Replace(st.corrected, p) },
                affected \in { ViolationsOf(violations, p.rule) } })
    ELSE [st EXCEPT !.steps = Append(@, st.corrected)]

RECURSIVE PatternLoop(_, _, _, _)
PatternLoop(k, st, violations, config) ==
    IF k > Len(FIX_PATTERNS) THEN st
    ELSE Only({ PatternLoop(k + 1, next, violations, config) :
                next \in { PatternStep(FIX_PATTERNS[k], st, violations, config) } })

\* Object.entries(IMPORT_FIXES): the symbols in insertion order; the import
\* statement of a symbol is ImportStatement(symbol)
IMPORT_FIXES ==
    << "NotFoundException", "BadRequestException", "ForbiddenException",
       "UnauthorizedException", "ConflictException", "Logger" >>

ImportStatement(name) == << "import {", name, "} from '@nestjs/common'", ";" >>

\* text.includes(name) for a token: the exception and Logger names occur in
\* the constructor calls and as names of an import
TokenHasName(t, name) ==
    \/ t = name
    \/ name # "Logger" /\ t = "throw new " \o name \o "("
    \/ name = "Logger" /\ t = "new Logger("

\* corrected.includes(s) for a token sequence s
IncludesSeq(text, s) ==
    \E i \in 1 .. Len(text) - Len(s) + 1 : SubSeq(text, i, i + Len(s) - 1) = s

\* corrected.match(/import\s*{([^}]+)}\s*from\s*['"]@nestjs\/common['"]/):
\* the first and last index of the first match, or <<0, 0>>
RECURSIVE ExistingImport(_, _)
ExistingImport(text, i) ==
    IF i > Len(text) THEN << 0, 0 >>
    ELSE LET j == FirstBrace(text, i + 1)
         IN  IF /\ text[i] = "import {"
                /\ j > i + 1
                /\ text[j] = "} from '@nestjs/common'"
             THEN << i, j >>
             ELSE ExistingImport(text, i + 1)

\* existingImport[1].split(',').map(s => s.trim())
ImportNames(group) == SelectSeq(group, LAMBDA t : t # "," /\ t # NL)

\* imports.join(', ')
RECURSIVE JoinNamesFrom(_, _)
JoinNamesFrom(names, i) ==
    IF i > Len(names) THEN <<>>
    ELSE IF i = Len(names) THEN << names[i] >>
    ELSE << names[i], "," >> \o JoinNamesFrom(names, i + 1)

JoinNames(names) == JoinNamesFrom(names, 1)

\* one turn of `for (const [exceptionName, importStatement] of ...)`
ImportStep(name, st) ==
    LET m == ExistingImport(st.corrected, 1)
        imports == ImportNames(SubSeq(st.corrected, m[1] + 1, m[2] - 1))
        merged == << "import {" >> \o JoinNames(Append(imports, name))
                  \o << "} from '@nestjs/common'" >>
    IN  IF ~ ( /\ \E t \in Tokens(st.corrected) : TokenHasName(t, name)
               /\ ~ IncludesSeq(st.corrected, ImportStatement(name)) )
        THEN st
        ELSE IF m[1] = 0
        THEN [st EXCEPT !.neededImports = Append(@, name)]
        ELSE IF Includes(imports, name)
        THEN st
        ELSE [st EXCEPT
                !.corrected = SubSeq(@, 1, m[1] - 1) \o merged \o SubSeq(@, m[2] + 1, Len(@)),
                !.appliedFixes = Append(@,
                    AppliedFix("INV-IMPORT", 1, "Add " \o name \o " to existing import",
                               SubSeq(st.corrected, m[1], m[2]), merged))]

\* Array.from(neededImports).join('\n')
ImportBlock(names) == Join([k \in DOMAIN names |-> ImportStatement(names[k])])

\* "Add new import statements at the top"
PrependImports(st) ==
    IF st.neededImports = <<>> THEN st
    ELSE [st EXCEPT
            !.corrected = ImportBlock(st.neededImports) \o << NL >> \o @,
            !.appliedFixes = Append(@,
                AppliedFix("INV-IMPORT", 1, "Add missing imports",
                           <<>>, ImportBlock(st.neededImports)))]

\* the loop over IMPORT_FIXES, then the new import statements
RECURSIVE ImportLoop(_, _)
ImportLoop(k, st) ==
    IF k > Len(IMPORT_FIXES) THEN PrependImports(st)
    ELSE Only({ ImportLoop(k + 1, next) : next \in { ImportStep(IMPORT_FIXES[k], st) } })

applyFixes(content, violations, config) ==
    Only({ [original |-> content,
            corrected |-> imports.corrected,
            appliedFixes |-> imports.appliedFixes,
            remainingViolations |-> AllViolations(imports.corrected)] :
           imports \in
             { ImportLoop(1, [corrected |-> patterns.corrected,
                              appliedFixes |-> patterns.appliedFixes,
                              neededImports |-> <<>>]) :
               patterns \in
                 { PatternLoop(1, [corrected |-> content, appliedFixes |-> <<>>,
                                  steps |-> <<>>], violations, config) } } })

\* the text after each turn of the pattern loop of applyFixes, in order
PatternTexts(content, violations, config) ==
    PatternLoop(1, [corrected |-> content, appliedFixes |-> <<>>, steps |-> <<>>],
                violations, config).steps

(***************************************************************************)
(* The texts the engine is run on: up to MaxLines lines, each one of the   *)
(* statements below, and one longer text whose statements spread over the  *)
(* validators' look-ahead windows.                                         *)
(***************************************************************************)
MaxLines == 2

InputLines ==
    { << "const x = 1;" >>,
      << "throw new Error(", "'X not found'", ")", ";" >>,
      << "throw new Error(", "'invalid input'", ")", ";" >>,
      << "throw new Error(", "'boom'", ")", ";" >>,
      << "throw new NotFoundException(", "'X not found'", ")", ";" >>,
      << "console.log(", "x", ")", ";" >>,
      << "console.log(", "token", ")", ";" >>,
      << "console.info(", "x", ")", ";" >>,
      << "import {", "Injectable", "} from '@nestjs/common'", ";" >>,
      << "import {", "NotFoundException", ",", "Logger", "} from '@nestjs/common'", ";" >>,
      << "prisma.teams.findMany(", "{ where: {", "id", "}", "})", ";" >> }

\* a teams query and a users query, neither ended by a semicolon, and a
\* comment naming deleted_at on the tenth line, the last line that the
\* look-ahead of validateTenantIsolation reads from line 1
WindowText ==
    Join(<< << "prisma.teams.findFirst(", "{ where: {", "id", "}", "})" >>,
            << "prisma.users.findMany(", "{ where: {", "id", "}", "})" >> >>
         \o [k \in 1 .. WhereBlockLines - 3 |-> << "const x = 1;" >>]
         \o << << "// deleted_at" >> >>)

RECURSIVE LineSeqs(_)
LineSeqs(n) ==
    IF n = 0 THEN { <<>> }
    ELSE LET shorter == LineSeqs(n - 1)
         IN  shorter \cup { Append(ls, l) : ls \in { x \in shorter : Len(x) = n - 1 },
                                            l \in InputLines }

Contents == { Join(ls) : ls \in LineSeqs(MaxLines) } \cup { WindowText }

\* the rules that have a fix pattern
FixableRules == { FIX_PATTERNS[k].rule : k \in DOMAIN FIX_PATTERNS }

\* the violation lists a caller passes with a text: what the validators find
\* in it, that list without the violations of one rule, or an empty list
ViolationLists(content) ==
    LET found == AllViolations(content)
    IN  { found, <<>> }
        \cup { SelectSeq(found, LAMBDA v : v.rule # r) : r \in FixableRules }

BaseConfig == [maxIterations |-> 3, autoFix |-> TRUE]

ApplyConfigs ==
    { BaseConfig,
      [maxIterations |-> 3, autoFix |-> TRUE, skipRules |-> << "INV-LOGGER" >>],
      [maxIterations |-> 3, autoFix |-> TRUE, fixRules |-> << >>],
      [maxIterations |-> 3, autoFix |-> TRUE, fixRules |-> << "INV-ERROR-TYPE" >>],
      [maxIterations |-> 3, autoFix |-> TRUE, fixRules |-> << "INV-ERROR-TYPE", "INV-LOGGER" >>,
       skipRules |-> << "INV-ERROR-TYPE" >>] }

InitApply ==
    /\ mode = "apply"
    /\ pc = "input"
    /\ \E content \in Contents, config \in ApplyConfigs :
         \E violations \in ViolationLists(content) :
            aIn = [content |-> content, violations |-> violations, config |-> config]
    /\ aOut = None
    /\ NoGating
    /\ NoScore
    /\ NoLoop
    /\ NoPattern
    /\ NoValidate
    /\ NoProcess

\* one call of applyFixes; beside the result, the text after each pattern
ApplyFixes ==
    /\ mode = "apply"
    /\ pc = "input"
    /\ pc' = "done"
    /\ aOut' = [result |-> applyFixes(aIn.content, aIn.violations, aIn.config),
                texts |-> PatternTexts(aIn.content, aIn.violations, aIn.config)]
    /\ UNCHANGED <<mode, aIn, gatingVars, scoreVars, loopVars, patternVars, validateVars, processVars>>

NextApply == ApplyFixes

SpecApply == InitApply /\ [][NextApply]_vars

(***************************************************************************)
(* runCorrectionLoop, one step per loop iteration. pc is "call" before the *)
(* function is entered, "while" at the loop test, "break" after the break  *)
(* statement and "done" once it has returned. A caller may run the loop a  *)
(* second time, on the finalContent of the first run and with the same     *)
(* configuration.                                                          *)
(***************************************************************************)
MaxIter == 3

LoopConfigs ==
    { [maxIterations |-> n, autoFix |-> TRUE] : n \in 0 .. MaxIter }
    \cup { [maxIterations |-> n, autoFix |-> TRUE, skipRules |-> << "INV-LOGGER" >>] :
             n \in 1 .. MaxIter }
    \cup { [maxIterations |-> n, autoFix |-> FALSE] : n \in { 1, MaxIter } }

Init ==
    /\ mode = "loop"
    /\ pc = "call"
    /\ call \in [content : Contents, config : LoopConfigs]
    /\ currentContent = <<>>
    /\ allViolations = <<>>
    /\ iterations = 0
    /\ correctionHistory = <<>>
    /\ initialViolations = 0
    /\ returned = <<>>
    /\ NoGating
    /\ NoScore
    /\ NoApply
    /\ NoPattern
    /\ NoValidate
    /\ NoProcess

\* the statements before the loop
Enter ==
    /\ mode = "loop"
    /\ pc = "call"
    /\ pc' = "while"
    /\ currentContent' = call.content
    /\ correctionHistory' = <<>>
    /\ iterations' = 0
    /\ \E found \in { AllViolations(call.content) } :
           /\ allViolations' = found
           /\ initialViolations' = Len(found)
    /\ UNCHANGED <<mode, call, returned, gatingVars, scoreVars, applyVars, patternVars, validateVars, processVars>>

\* the loop body without the iteration cap in its test
IterateUncapped ==
    /\ mode = "loop"
    /\ pc = "while"
    /\ allViolations # <<>>
    /\ \E result \in { applyFixes(currentContent, allViolations, call.config) } :
           /\ iterations' = iterations + 1
           /\ correctionHistory' = Append(correctionHistory, result)
           /\ IF result.appliedFixes = <<>>
              THEN /\ pc' = "break"
                   /\ UNCHANGED <<currentContent, allViolations>>
              ELSE /\ pc' = "while"
                   /\ currentContent' = result.corrected
                   /\ allViolations' = result.remainingViolations
    /\ UNCHANGED <<mode, call, initialViolations, returned,
                   gatingVars, scoreVars, applyVars, patternVars, validateVars, processVars>>

\* the loop body without its break statement
IterateNoBreak ==
    /\ mode = "loop"
    /\ pc = "while"
    /\ iterations < call.config.maxIterations
    /\ allViolations # <<>>
    /\ \E result \in { applyFixes(currentContent, allViolations, call.config) } :
           /\ iterations' = iterations + 1
           /\ correctionHistory' = Append(correctionHistory, result)
           /\ pc' = "while"
           /\ currentContent' = result.corrected
           /\ allViolations' = result.remainingViolations
    /\ UNCHANGED <<mode, call, initialViolations, returned,
                   gatingVars, scoreVars, applyVars, patternVars, validateVars, processVars>>

\* the loop test holds: one run of the loop body
Iterate ==
    /\ mode = "loop"
    /\ pc = "while"
    /\ iterations < call.config.maxIterations
    /\ allViolations # <<>>
    /\ \E result \in { applyFixes(currentContent, allViolations, call.config) } :
           /\ iterations' = iterations + 1
           /\ correctionHistory' = Append(correctionHistory, result)
           /\ IF result.appliedFixes = <<>>
              THEN /\ pc' = "break"
                   /\ UNCHANGED <<currentContent, allViolations>>
              ELSE /\ pc' = "while"
                   /\ currentContent' = result.corrected
                   /\ allViolations' = result.remainingViolations
    /\ UNCHANGED <<mode, call, initialViolations, returned,
                   gatingVars, scoreVars, applyVars, patternVars, validateVars, processVars>>

\* the return statement handing back the text the function was called with
ReturnOriginalContent ==
    /\ mode = "loop"
    /\ \/ pc = "break"
       \/ /\ pc = "while"
          /\ ~ (iterations < call.config.maxIterations /\ allViolations # <<>>)
    /\ pc' = "done"
    /\ returned' = Append(returned,
                      [iterations |-> iterations,
                       initialViolations |-> initialViolations,
                       finalViolations |-> Len(allViolations),
                       correctionHistory |-> correctionHistory,
                       finalContent |-> call.content,
                       success |-> (Len(allViolations) = 0)])
    /\ UNCHANGED <<mode, call, currentContent, allViolations, iterations,
                   correctionHistory, initialViolations,
                   gatingVars, scoreVars, applyVars, patternVars, validateVars, processVars>>

\* the return statement with success standing for fewer violations than at the start
ReturnSuccessOnProgress ==
    /\ mode = "loop"
    /\ \/ pc = "break"
       \/ /\ pc = "while"
          /\ ~ (iterations < call.config.maxIterations /\ allViolations # <<>>)
    /\ pc' = "done"
    /\ returned' = Append(returned,
                      [iterations |-> iterations,
                       initialViolations |-> initialViolations,
                       finalViolations |-> Len(allViolations),
                       correctionHistory |-> correctionHistory,
                       finalContent |-> currentContent,
                       success |-> (Len(allViolations) < initialViolations)])
    /\ UNCHANGED <<mode, call, currentContent, allViolations, iterations,
                   correctionHistory, initialViolations,
                   gatingVars, scoreVars, applyVars, patternVars, validateVars, processVars>>

\* the loop test fails, or the loop was left by break: the return statement
Return ==
    /\ mode = "loop"
    /\ \/ pc = "break"
       \/ /\ pc = "while"
          /\ ~ (iterations < call.config.maxIterations /\ allViolations # <<>>)
    /\ pc' = "done"
    /\ returned' = Append(returned,
                      [iterations |-> iterations,
                       initialViolations |-> initialViolations,
                       finalViolations |-> Len(allViolations),
                       correctionHistory |-> correctionHistory,
                       finalContent |-> currentContent,
                       success |-> (Len(allViolations) = 0)])
    /\ UNCHANGED <<mode, call, currentContent, allViolations, iterations,
                   correctionHistory, initialViolations,
                   gatingVars, scoreVars, applyVars, patternVars, validateVars, processVars>>

\* the caller runs the loop again on the text the first run returned
RunAgain ==
    /\ mode = "loop"
    /\ pc = "done"
    /\ Len(returned) = 1
    /\ pc' = "call"
    /\ call' = [call EXCEPT !.content = returned[1].finalContent]
    /\ UNCHANGED <<mode, currentContent, allViolations, iterations,
                   correctionHistory, initialViolations, returned,
                   gatingVars, scoreVars, applyVars, patternVars, validateVars, processVars>>

Next == Enter \/ Iterate \/ Return \/ RunAgain

Spec == Init /\ [][Next]_vars

\* every step of the loop is taken in the end: the function runs to its return
FairSpec == Spec /\ WF_vars(Next)

(***************************************************************************)
(* Properties of runCorrectionLoop.                                        *)
(***************************************************************************)
Last(seq) == seq[Len(seq)]

\* the loop test of runCorrectionLoop fails
LoopHalts == allViolations = <<>> \/ iterations >= call.config.maxIterations

\* C4: an iteration that records no AppliedFix leaves the content as it was
\* and ends the loop at once; any other iteration makes the corrected text and
\* the remaining violations current. After such an iteration the function
\* returns exactly when no violation remains or maxIterations iterations have
\* run, and otherwise runs another iteration on the updated content.
LoopIterationTransition ==
    [][ /\ (pc = "while" /\ ~ LoopHalts) =>
              /\ iterations' = iterations + 1
              /\ Last(correctionHistory').original = currentContent
              /\ IF Last(correctionHistory').appliedFixes = <<>>
                 THEN pc' = "break" /\ currentContent' = currentContent
                 ELSE /\ pc' = "while"
                      /\ currentContent' = Last(correctionHistory').corrected
                      /\ allViolations' = Last(correctionHistory').remainingViolations
        /\ (pc = "while" /\ LoopHalts) =>
              pc' = "done" /\ Last(returned').finalContent = currentContent
        /\ (pc = "break") =>
              pc' = "done" /\ Last(returned').finalContent = currentContent
      ]_vars

\* an iteration that applied a fix was followed by one that applied none
LoopIterationWitness ==
    /\ mode = "loop"
    /\ pc = "break"
    /\ Len(correctionHistory) = 2
    /\ correctionHistory[1].appliedFixes # <<>>
    /\ correctionHistory[2].appliedFixes = <<>>
    /\ currentContent = correctionHistory[1].corrected
    /\ currentContent # call.content

\* C5: every call of runCorrectionLoop returns, and the iterations it reports
\* are at most config.maxIterations
LoopTerminatesWithinCap ==
    /\ (pc = "call") ~> (pc = "done")
    /\ [](\A k \in DOMAIN returned :
            returned[k].iterations <= call.config.maxIterations)

\* a run that the iteration cap ended: its last iteration applied a fix and
\* left violations
LoopCapWitness ==
    /\ mode = "loop"
    /\ pc = "done"
    /\ call.config.maxIterations >= 1
    /\ returned[1].iterations = call.config.maxIterations
    /\ Last(returned[1].correctionHistory).appliedFixes # <<>>
    /\ returned[1].finalViolations > 0

\* the AppliedFix entries of a whole run
NoFixApplied(run) ==
    \A k \in DOMAIN run.correctionHistory : run.correctionHistory[k].appliedFixes = <<>>

CutShort(run, config) ==
    /\ run.iterations >= 1
    /\ run.iterations = config.maxIterations
    /\ Last(run.correctionHistory).appliedFixes # <<>>
    /\ run.finalViolations > 0

HasViolationOf(violations, rule) == \E k \in DOMAIN violations : violations[k].rule = rule

\* C7, as claimed, for a violation list without a violation of any fixable
\* rule (the empty list among them): applyFixes returns the content as it
\* was given
NoViolationNoChange ==
    (mode = "apply" /\ pc = "done"
        /\ \A r \in FixableRules : ~ HasViolationOf(aIn.violations, r))
    => aOut.result.corrected = aIn.content

\* the three conditions under which a pattern of `rule` may transform the
\* content
RuleEligible(rule) ==
    /\ HasViolationOf(aIn.violations, rule)
    /\ ~ ("skipRules" \in DOMAIN aIn.config
            /\ rule \in Tokens(aIn.config.skipRules))
    /\ "fixRules" \in DOMAIN aIn.config => rule \in Tokens(aIn.config.fixRules)

\* the text a pattern of the loop starts from
TextBefore(k) == IF k = 1 THEN aIn.content ELSE aOut.texts[k - 1]

\* C8: a pattern whose rule is not among the violations, is in skipRules, or
\* is missing from a given fixRules leaves the text as it found it, and no
\* AppliedFix is recorded for a rule that fails one of the three conditions
OnlyEligiblePatternsApply ==
    (mode = "apply" /\ pc = "done") =>
        /\ \A k \in DOMAIN FIX_PATTERNS :
              ~ RuleEligible(FIX_PATTERNS[k].rule) => aOut.texts[k] = TextBefore(k)
        /\ \A k \in DOMAIN aOut.result.appliedFixes :
              \/ aOut.result.appliedFixes[k].rule = "INV-IMPORT"
              \/ RuleEligible(aOut.result.appliedFixes[k].rule)

\* a skipped pattern would have changed the text, and another pattern did
EligibilityWitness ==
    /\ mode = "apply"
    /\ pc = "done"
    /\ \E k \in DOMAIN FIX_PATTERNS :
          /\ ~ RuleEligible(FIX_PATTERNS[k].rule)
          /\ HasViolationOf(aIn.violations, FIX_PATTERNS[k].rule)
          /\ Replace(TextBefore(k), FIX_PATTERNS[k]) # TextBefore(k)
    /\ \E k \in DOMAIN FIX_PATTERNS : aOut.texts[k] # TextBefore(k)

\* C9, as claimed: every AppliedFix of a pattern's rule is for a line that
\* the pattern changed, so its before and after differ
AppliedFixOnlyForChangedLines ==
    (mode = "apply" /\ pc = "done") =>
        \A k \in DOMAIN aOut.result.appliedFixes :
            aOut.result.appliedFixes[k].rule # "INV-IMPORT"
            => aOut.result.appliedFixes[k].before # aOut.result.appliedFixes[k].after

\* the names that the import statement starting at token i of text imports
ImportedAt(text, i) ==
    IF text[i] = "import {" /\ FirstBrace(text, i + 1) > i + 1
          /\ text[FirstBrace(text, i + 1)] = "} from '@nestjs/common'"
    THEN ImportNames(SubSeq(text, i + 1, FirstBrace(text, i + 1) - 1))
    ELSE <<>>

\* how often text imports name from '@nestjs/common'
ImportCount(text, name) ==
    Cardinality({ ij \in { <<i, j>> : i \in DOMAIN text, j \in 1 .. Len(text) } :
                    /\ ij[2] \in DOMAIN ImportedAt(text, ij[1])
                    /\ ImportedAt(text, ij[1])[ij[2]] = name })

\* C10, as claimed: applyFixes never adds a symbol that an import from
\* '@nestjs/common' already names, so a text that imports no symbol twice is
\* corrected to a text that imports no symbol twice
NoSymbolImportedTwice ==
    (mode = "apply" /\ pc = "done"
        /\ \A k \in DOMAIN IMPORT_FIXES : ImportCount(aIn.content, IMPORT_FIXES[k]) <= 1)
    => \A k \in DOMAIN IMPORT_FIXES :
          ImportCount(aOut.result.corrected, IMPORT_FIXES[k]) <= 1

(***************************************************************************)
(* One fix pattern on its own: the replacement of applyFixes for a single  *)
(* pattern, followed by the validators on the replaced content.            *)
(***************************************************************************)
\* the texts of Contents and a line with two console calls
PatternContents ==
    Contents \cup { << "console.log(", "x", ")", ";", "console.info(", "x", ")", ";" >> }

InitPattern ==
    /\ mode = "pattern"
    /\ pc = "input"
    /\ pIn \in [content : PatternContents, pattern : DOMAIN FIX_PATTERNS]
    /\ pOut = None
    /\ NoGating
    /\ NoScore
    /\ NoApply
    /\ NoLoop
    /\ NoValidate
    /\ NoProcess

ApplyPattern ==
    /\ mode = "pattern"
    /\ pc = "input"
    /\ pc' = "done"
    /\ \E corrected \in { Replace(pIn.content, FIX_PATTERNS[pIn.pattern]) } :
          pOut' = [corrected |-> corrected, violations |-> AllViolations(corrected)]
    /\ UNCHANGED <<mode, pIn, gatingVars, scoreVars, applyVars, loopVars, validateVars, processVars>>

NextPattern == ApplyPattern

SpecPattern == InitPattern /\ [][NextPattern]_vars

\* the lines of the replaced content that differ from the line of the same
\* number before the replacement
ModifiedLines ==
    { n \in 1 .. Len(Split(pOut.corrected)) :
        LineAt(pOut.corrected, n) # LineAt(pIn.content, n) }

\* C11, as claimed: after a pattern is applied, the validators report no
\* violation of the pattern's rule on a line that the pattern modified
FixedLinesHaveNoViolation ==
    (mode = "pattern" /\ pc = "done") =>
        \A k \in DOMAIN pOut.violations :
            pOut.violations[k].rule = FIX_PATTERNS[pIn.pattern].rule
            => pOut.violations[k].line \notin ModifiedLines

\* x < percent / 100, for a quotient x = num/den with den > 0
FractionBelow(x, percent) == x.num * 100 < percent * x.den

\* the passed field of each validator's result
PassedOf(name, f) ==
    CASE name = "supabase-auth"     -> f.critical = 0
      [] name = "tenant-isolation"  -> f.critical = 0 /\ f.high = 0
      [] name = "audit-logging"     -> TRUE
      [] name = "prisma-queries"    -> f.critical = 0 /\ f.high = 0
      [] name = "transactions"      -> ViolationCount(f) = 0
      [] name = "code-safety"       -> f.critical = 0
      [] name = "exception-types"   -> ~FractionBelow(validateExceptionTypesScore(f), 90)
      [] name = "logging"           -> f.critical = 0
      [] name = "external-services" -> ViolationCount(f) = 0
      [] name = "job-processing"    -> ViolationCount(f) = 0
      [] name = "api-design"        -> f.critical = 0
      [] name = "code-quality"      -> ViolationCount(f) = 0

CountSeverity(violations, severity) ==
    Cardinality({ k \in DOMAIN violations : violations[k].severity = severity })

(***************************************************************************)
(* A validator run on a ValidationContext of one or two files. A finding   *)
(* carries its file; the files are visited in the order of the context.    *)
(***************************************************************************)
ValidateLines ==
    { << "const x = 1;" >>,
      << "prisma.teams.findMany(", "{ where: {", "id", "}", "})", ";" >>,
      << "prisma.teams.delete(", "{ where: {", "id", "}", "})", ";" >>,
      << "console.log(", "x", ")", ";" >>,
      << "throw new Error(", "'boom'", ")", ";" >>,
      << "throw new NotFoundException(", "'X not found'", ")", ";" >> }

RECURSIVE ValidateLineSeqs(_)
ValidateLineSeqs(n) ==
    IF n = 0 THEN { <<>> }
    ELSE LET shorter == ValidateLineSeqs(n - 1)
         IN  shorter \cup { Append(ls, l) : ls \in { x \in shorter : Len(x) = n - 1 },
                                            l \in ValidateLines }

ValidateContents == { Join(ls) : ls \in ValidateLineSeqs(MaxLines) }

\* ctx.fileContents: the files in insertion order; a second file has one line
Contexts ==
    { << [file |-> "a.ts", content |-> c] >> : c \in ValidateContents }
    \cup { << [file |-> "a.ts", content |-> c], [file |-> "b.ts", content |-> d] >> :
             c \in ValidateContents, d \in ValidateLines }

InFile(file, findings) ==
    [k \in DOMAIN findings |-> [file |-> file] @@ findings[k]]

\* /prisma\.(organizations|teams|rubrics|role_plays)\.delete\(/
IsHardDelete(t) == t = "prisma.teams.delete("

\* the index of the first token from i on that is a hard delete, or 0
RECURSIVE FirstHardDelete(_, _)
FirstHardDelete(text, i) ==
    IF i > Len(text) THEN 0
    ELSE IF IsHardDelete(text[i]) THEN i
    ELSE FirstHardDelete(text, i + 1)

\* content.substring(0, index).split('\n').length
LineOfToken(text, i) == Len(Split(SubSeq(text, 1, i - 1)))

\* validatePrismaQueries, the warnings of one line: a findMany whose query
\* block names neither take nor skip (no token of the vocabulary does)
PrismaQueriesLineWarnings(lines, i) ==
    IF \E t \in Tokens(lines[i]) : IsFindMany(t)
    THEN << [line |-> i, rule |-> "INV-PRISMA-PAGINATION"] >>
    ELSE <<>>

\* validatePrismaQueries, the findings of one file: the findings of its
\* lines, then the hard delete found in the whole content
PrismaQueriesFile(f) ==
    Only({ [violations |->
              InFile(f.file,
                 validatePrismaQueries(lines)
                 \o (IF FirstHardDelete(f.content, 1) = 0 THEN <<>>
                     ELSE << Violation("INV-PRISMA-SOFT-DELETE",
                                       LineOfToken(f.content, FirstHardDelete(f.content, 1)),
                                       "critical") >>)),
            warnings |->
              InFile(f.file,
                 Flatten([i \in 1 .. Len(lines) |-> PrismaQueriesLineWarnings(lines, i)]))] :
           lines \in { Split(f.content) } })

\* a variant that stops after the first file that has a violation
ForEachFileUntilViolation(perFile) ==
    LET stop == IF \E k \in DOMAIN perFile : perFile[k].violations # <<>>
                THEN CHOOSE k \in DOMAIN perFile :
                         /\ perFile[k].violations # <<>>
                         /\ \A j \in 1 .. k - 1 : perFile[j].violations = <<>>
                ELSE Len(perFile)
    IN  [violations |-> FlattenFrom([k \in 1 .. stop |-> perFile[k].violations], 1),
         warnings |-> FlattenFrom([k \in 1 .. stop |-> perFile[k].warnings], 1)]

\* for (const [file, content] of ctx.fileContents): the findings of the
\* files, one file after the other
ForEachFile(perFile) ==
    [violations |-> Flatten([k \in DOMAIN perFile |-> perFile[k].violations]),
     warnings |-> Flatten([k \in DOMAIN perFile |-> perFile[k].warnings])]

\* the numbers of the violations of each severity, and of the warnings
CountsOf(found) ==
    [critical |-> CountSeverity(found.violations, "critical"),
     high |-> CountSeverity(found.violations, "high"),
     medium |-> CountSeverity(found.violations, "medium"),
     warnings |-> Len(found.warnings)]

validatePrismaQueriesResult(ctx) ==
    Only({ [violations |-> found.violations,
            warnings |-> found.warnings,
            score |-> validatePrismaQueriesScore(CountsOf(found)),
            passed |-> PassedOf("prisma-queries", CountsOf(found))] :
           found \in { ForEachFile([k \in DOMAIN ctx |-> PrismaQueriesFile(ctx[k])]) } })

\* nestExceptions.some(ex => line.includes(`throw new ${ex}`))
IsNestThrow(t) == t = "throw new NotFoundException("

ExceptionTypesFile(f) ==
    [violations |-> InFile(f.file, validateExceptionTypes(Split(f.content))),
     warnings |-> <<>>]

\* genericErrorCount and nestExceptionCount: the lines with such a throw
ThrowCount(ctx, nest) ==
    Len(Flatten([k \in DOMAIN ctx |->
                    SelectSeq(Split(ctx[k].content),
                              LAMBDA line : \E t \in Tokens(line) :
                                  IF nest THEN IsNestThrow(t) ELSE IsThrowError(t))]))

validateExceptionTypesResult(ctx) ==
    Only({ [violations |-> found.violations,
            warnings |-> found.warnings,
            score |-> validateExceptionTypesScore(throws),
            passed |-> PassedOf("exception-types", throws)] :
           found \in { ForEachFile([k \in DOMAIN ctx |-> ExceptionTypesFile(ctx[k])]) },
           throws \in { [nest |-> ThrowCount(ctx, TRUE),
                         generic |-> ThrowCount(ctx, FALSE)] } })

InitValidate ==
    /\ mode = "validate"
    /\ pc = "input"
    /\ vIn \in Contexts
    /\ vOut = None
    /\ NoGating
    /\ NoScore
    /\ NoApply
    /\ NoLoop
    /\ NoPattern
    /\ NoProcess

\* every modelled validator runs on the context
Validate ==
    /\ mode = "validate"
    /\ pc = "input"
    /\ pc' = "done"
    /\ vOut' = [n \in {"prisma-queries", "exception-types"} |->
                    IF n = "prisma-queries" THEN validatePrismaQueriesResult(vIn)
                    ELSE validateExceptionTypesResult(vIn)]
    /\ UNCHANGED <<mode, vIn, gatingVars, scoreVars, applyVars, loopVars, patternVars, processVars>>

NextValidate == Validate

SpecValidate == InitValidate /\ [][NextValidate]_vars

\* the position of a file in the context
FileIndex(file) == CHOOSE k \in DOMAIN vIn : vIn[k].file = file

\* findings in (file, then line) order
InFileLineOrder(findings) ==
    \A j, k \in DOMAIN findings :
        j < k =>
            \/ FileIndex(findings[j].file) < FileIndex(findings[k].file)
            \/ /\ findings[j].file = findings[k].file
               /\ findings[j].line <= findings[k].line

\* C12, as claimed: in the violations and in the warnings of every validator
\* the findings of an earlier file come first, and within a file the line
\* numbers never decrease
FindingsInFileLineOrder ==
    (mode = "validate" /\ pc = "done") =>
        \A n \in DOMAIN vOut :
            InFileLineOrder(vOut[n].violations) /\ InFileLineOrder(vOut[n].warnings)

(***************************************************************************)
(* validateGeneralPractices: every rule is checked on every line of every  *)
(* file. What a check returns for a line is an input of the run: null, a   *)
(* RuleViolation, or an exception thrown by the check.                      *)
(***************************************************************************)
securityRules ==
    << [id |-> "SEC-001", severity |-> "critical"],
       [id |-> "SEC-002", severity |-> "high"],
       [id |-> "SEC-003", severity |-> "critical"],
       [id |-> "SEC-004", severity |-> "critical"],
       [id |-> "SEC-005", severity |-> "critical"],
       [id |-> "SEC-006", severity |-> "critical"] >>

errorHandlingRules ==
    << [id |-> "ERR-001", severity |-> "high"],
       [id |-> "ERR-002", severity |-> "medium"],
       [id |-> "ERR-003", severity |-> "medium"],
       [id |-> "ERR-004", severity |-> "medium"],
       [id |-> "ERR-005", severity |-> "medium"] >>

performanceRules ==
    << [id |-> "PERF-001", severity |-> "medium"],
       [id |-> "PERF-002", severity |-> "medium"],
       [id |-> "PERF-003", severity |-> "medium"],
       [id |-> "PERF-004", severity |-> "medium"] >>

reliabilityRules ==
    << [id |-> "REL-001", severity |-> "high"],
       [id |-> "REL-002", severity |-> "medium"],
       [id |-> "REL-003", severity |-> "medium"],
       [id |-> "REL-004", severity |-> "medium"] >>

maintainabilityRules ==
    << [id |-> "MAINT-001", severity |-> "medium"],
       [id |-> "MAINT-002", severity |-> "medium"],
       [id |-> "MAINT-003", severity |-> "medium"],
       [id |-> "MAINT-004", severity |-> "medium"],
       [id |-> "MAINT-005", severity |-> "medium"] >>

allRules ==
    securityRules \o errorHandlingRules \o performanceRules
        \o reliabilityRules \o maintainabilityRules

\* a place where a rule is checked: the file of the context, the line, the rule
Checks(ctx) ==
    { [file |-> f, line |-> l, rule |-> r] :
        f \in DOMAIN ctx, l \in 1 .. MaxLines, r \in DOMAIN allRules }

ChecksOf(ctx) == { c \in Checks(ctx) : c.line <= ctx[c.file].lines }

\* the files of the context with their numbers of lines
PracticeContexts ==
    { << [file |-> "a.ts", lines |-> MaxLines] >>,
      << [file |-> "a.ts", lines |-> 1], [file |-> "b.ts", lines |-> 1] >> }

\* what a check returns when it does not return null
CheckOutcomes == {"violation", "throws"}

\* the checks of a run that do not return null: none, one or two of them
OutcomesOf(ctx) ==
    LET returns == { [check |-> c, outcome |-> o] : c \in ChecksOf(ctx), o \in CheckOutcomes }
    IN  { {} } \cup { s \in { {f, g} : f \in returns, g \in returns } :
                        \A f \in s, g \in s : f.check = g.check => f = g }

PracticeInputs ==
    UNION { { [ctx |-> ctx, outcomes |-> s] : s \in OutcomesOf(ctx) } :
            ctx \in PracticeContexts }

\* rule.check(line, lineNum, lineContext)
check(in, c) ==
    IF \E f \in in.outcomes : f.check = c
    THEN (CHOOSE f \in in.outcomes : f.check = c).outcome
    ELSE "null"

\* rule.severity === 'critical' || rule.severity === 'high'
IsViolationSeverityOnlyCritical(severity) == severity = "critical"

IsViolationSeverity(severity) == severity \in {"critical", "high"}

\* the checks in the order of the three nested loops: files, lines, rules
CheckBefore(c, d) ==
    \/ c.file < d.file
    \/ c.file = d.file /\ c.line < d.line
    \/ c.file = d.file /\ c.line = d.line /\ c.rule < d.rule

RECURSIVE InLoopOrder(_)
InLoopOrder(cs) ==
    IF cs = {} THEN <<>>
    ELSE LET c == CHOOSE x \in cs : \A y \in cs \ {x} : CheckBefore(x, y)
         IN  << c >> \o InLoopOrder(cs \ {c})

\* violations.push({...}) / warnings.push({...})
PracticeViolation(ctx, c) ==
    [file |-> ctx[c.file].file, line |-> c.line, rule |-> allRules[c.rule].id,
     severity |-> allRules[c.rule].severity]

PracticeWarning(ctx, c) ==
    [file |-> ctx[c.file].file, line |-> c.line, rule |-> allRules[c.rule].id]

RECURSIVE PracticeLoop(_, _, _, _)
PracticeLoop(in, todo, violations, warnings) ==
    IF todo = <<>> THEN [thrown |-> FALSE, violations |-> violations, warnings |-> warnings]
    ELSE LET c == Head(todo)
         IN  CASE check(in, c) = "throws" ->
                    \* nothing catches the exception: the call does not return
                    [thrown |-> TRUE, violations |-> <<>>, warnings |-> <<>>]
               [] check(in, c) = "null" ->
                    PracticeLoop(in, Tail(todo), violations, warnings)
               [] check(in, c) = "violation" ->
                    IF IsViolationSeverity(allRules[c.rule].severity)
                    THEN PracticeLoop(in, Tail(todo),
                                      Append(violations, PracticeViolation(in.ctx, c)), warnings)
                    ELSE PracticeLoop(in, Tail(todo),
                                      violations, Append(warnings, PracticeWarning(in.ctx, c)))

\* only the checks that return something can change the result, so the loop
\* is run over them, in loop order
validateGeneralPractices(in) ==
    LET run == PracticeLoop(in, InLoopOrder({ f.check : f \in in.outcomes }), <<>>, <<>>)
        criticalCount == CountSeverity(run.violations, "critical")
        highCount == CountSeverity(run.violations, "high")
    IN  IF run.thrown THEN [thrown |-> TRUE]
        ELSE [thrown |-> FALSE,
              metric |-> "general-best-practices",
              score |-> validateGeneralPracticesScore(
                            [critical |-> criticalCount, high |-> highCount,
                             warnings |-> Len(run.warnings)]),
              passed |-> criticalCount = 0,
              violations |-> run.violations,
              warnings |-> run.warnings]

InitPractices ==
    /\ mode = "practices"
    /\ pc = "input"
    /\ vIn \in PracticeInputs
    /\ vOut = None
    /\ NoGating
    /\ NoScore
    /\ NoApply
    /\ NoLoop
    /\ NoPattern
    /\ NoProcess

ValidateGeneralPractices ==
    /\ mode = "practices"
    /\ pc = "input"
    /\ pc' = "done"
    /\ vOut' = validateGeneralPractices(vIn)
    /\ UNCHANGED <<mode, vIn, gatingVars, scoreVars, applyVars, loopVars, patternVars, processVars>>

NextPractices == ValidateGeneralPractices

SpecPractices == InitPractices /\ [][NextPractices]_vars

\* the checks of the run that returned a RuleViolation
Found == { f.check : f \in { g \in vIn.outcomes : g.outcome = "violation" } }

Occurrences(findings, ctx, c) ==
    Cardinality({ k \in DOMAIN findings :
                    /\ findings[k].file = ctx[c.file].file
                    /\ findings[k].line = c.line
                    /\ findings[k].rule = allRules[c.rule].id })

\* C13: when validateGeneralPractices returns, every finding of a critical or
\* high rule is exactly one Violation with the rule's severity and no Warning,
\* every finding of a medium rule is exactly one Warning and no Violation, and
\* the two lists hold nothing else
PracticeFindingsRecordedOnce ==
    (mode = "practices" /\ pc = "done" /\ ~vOut.thrown) =>
        /\ \A c \in Found :
              IF allRules[c.rule].severity \in {"critical", "high"}
              THEN /\ Occurrences(vOut.violations, vIn.ctx, c) = 1
                   /\ Occurrences(vOut.warnings, vIn.ctx, c) = 0
                   /\ \A k \in DOMAIN vOut.violations :
                         vOut.violations[k].rule = allRules[c.rule].id
                             => vOut.violations[k].severity = allRules[c.rule].severity
              ELSE /\ Occurrences(vOut.warnings, vIn.ctx, c) = 1
                   /\ Occurrences(vOut.violations, vIn.ctx, c) = 0
        /\ Len(vOut.violations) + Len(vOut.warnings) = Cardinality(Found)

\* two findings, one of a high rule and one of a medium rule, were recorded
PracticeFindingsWitness ==
    /\ mode = "practices"
    /\ pc = "done"
    /\ ~vOut.thrown
    /\ \E c, d \in Found :
          /\ allRules[c.rule].severity = "high"
          /\ allRules[d.rule].severity = "medium"
    /\ Len(vOut.violations) = 1
    /\ Len(vOut.warnings) = 1

validators ==
    << "supabase-auth", "tenant-isolation", "audit-logging", "prisma-queries",
       "transactions", "code-safety", "exception-types", "logging",
       "external-services", "job-processing", "api-design", "code-quality" >>

IsValidator(name) == \E k \in DOMAIN validators : validators[k] = name

\* the metric field of each validator's result
ResultMetric ==
    [n \in { validators[k] : k \in DOMAIN validators } |->
        CASE n = "supabase-auth"     -> "supabase-auth-compliance"
          [] n = "tenant-isolation"  -> "tenant-isolation"
          [] n = "audit-logging"     -> "audit-log-coverage"
          [] n = "prisma-queries"    -> "prisma-query-compliance"
          [] n = "transactions"      -> "transaction-compliance"
          [] n = "code-safety"       -> "code-safety-compliance"
          [] n = "exception-types"   -> "exception-type-compliance"
          [] n = "logging"           -> "logging-compliance"
          [] n = "external-services" -> "external-service-compliance"
          [] n = "job-processing"    -> "job-processing-compliance"
          [] n = "api-design"        -> "api-design-compliance"
          [] n = "code-quality"      -> "code-quality"]

\* validator(ctx): the ValidationResult, with the lengths of its lists
ValidationResult(name, f) ==
    [metric |-> ResultMetric[name],
     score |-> ScoreOf(name, f),
     passed |-> PassedOf(name, f),
     violations |-> ViolationCount(f),
     warnings |-> f.warnings]

SOP_VALIDATOR_MAP ==
    [sop \in {"2-supabase", "3-database-prisma", "4-code-safety-patterns",
              "5-error-handling-logging", "6-external-services-timing",
              "7-queue-job-processing", "8-api-design-patterns",
              "9-testing-code-quality"} |->
        CASE sop = "2-supabase" -> << "supabase-auth", "tenant-isolation", "audit-logging" >>
          [] sop = "3-database-prisma" -> << "prisma-queries", "transactions" >>
          [] sop = "4-code-safety-patterns" -> << "code-safety" >>
          [] sop = "5-error-handling-logging" -> << "exception-types", "logging" >>
          [] sop = "6-external-services-timing" -> << "external-services" >>
          [] sop = "7-queue-job-processing" -> << "job-processing" >>
          [] sop = "8-api-design-patterns" -> << "api-design" >>
          [] sop = "9-testing-code-quality" -> << "code-quality" >>]

\* in units of 0.05
METRIC_WEIGHTS ==
    [n \in { validators[k] : k \in DOMAIN validators } |->
        CASE n \in {"supabase-auth", "tenant-isolation", "prisma-queries"} -> 3
          [] n \in {"transactions", "exception-types"} -> 2
          [] OTHER -> 1]

BLOCK_ON_FAIL ==
    << "supabase-auth", "tenant-isolation", "prisma-queries", "transactions", "api-design" >>

\* readFileContents: the files that can be read, in order
readFileContents(files) == SelectSeq(files, LAMBDA f : f.readable)

\* for (const sop of sopFiles) validatorsToRun.push(...sopValidators)
RECURSIVE SopValidators(_, _)
SopValidators(sopFiles, i) ==
    IF i > Len(sopFiles) THEN <<>>
    ELSE (IF sopFiles[i] \in DOMAIN SOP_VALIDATOR_MAP
          THEN SOP_VALIDATOR_MAP[sopFiles[i]] ELSE <<>>)
         \o SopValidators(sopFiles, i + 1)

\* [...new Set(names)]: the first occurrence of each name, in order
RECURSIVE Deduplicate(_, _)
Deduplicate(names, i) ==
    IF i > Len(names) THEN <<>>
    ELSE (IF \E j \in 1 .. i - 1 : names[j] = names[i] THEN <<>> ELSE << names[i] >>)
         \o Deduplicate(names, i + 1)

validatorsToRun(config) ==
    Deduplicate(IF Len(config.validators) > 0 THEN config.validators
                ELSE IF Len(config.sopFiles) > 0 THEN SopValidators(config.sopFiles, 1)
                ELSE validators, 1)

\* the loop over validatorsToRun: a name that is no key of validators is skipped
RunValidators(names, found) ==
    LET known == SelectSeq(names, IsValidator)
    IN  [k \in DOMAIN known |-> ValidationResult(known[k], found[known[k]])]

RECURSIVE GCD(_, _)
GCD(a, b) == IF b = 0 THEN a ELSE GCD(b, a % b)

Reduced(q) ==
    IF q.num = 0 THEN [num |-> 0, den |-> 1]
    ELSE [num |-> q.num \div GCD(q.num, q.den), den |-> q.den \div GCD(q.num, q.den)]

\* q + score * weight
AddWeighted(q, score, weight) ==
    Reduced([num |-> q.num * score.den + weight * score.num * q.den,
             den |-> q.den * score.den])

\* Object.keys(validators).find(k => validators[k] === validators[result.metric]):
\* the metric itself when it is a key of validators, undefined otherwise
ValidatorNameOf(result) == IF IsValidator(result.metric) THEN result.metric ELSE None

\* METRIC_WEIGHTS[validatorName] || 0.05
WeightOf(validatorName) ==
    IF validatorName \in DOMAIN METRIC_WEIGHTS THEN METRIC_WEIGHTS[validatorName] ELSE 1

\* BLOCK_ON_FAIL.includes(validatorName)
BlockOnFail(result) ==
    \E k \in DOMAIN BLOCK_ON_FAIL : BLOCK_ON_FAIL[k] = ValidatorNameOf(result)

RECURSIVE SummaryLoop(_, _, _)
SummaryLoop(results, i, acc) ==
    IF i > Len(results) THEN acc
    ELSE LET result == results[i]
             weight == WeightOf(ValidatorNameOf(result))
         IN  SummaryLoop(results, i + 1,
                 [weightedScore |-> AddWeighted(acc.weightedScore, result.score, weight),
                  totalWeight |-> acc.totalWeight + weight,
                  blockers |-> IF ~result.passed /\ BlockOnFail(result)
                               THEN acc.blockers + result.violations
                               ELSE acc.blockers,
                  warnings |-> acc.warnings + result.warnings,
                  metrics |-> Append(acc.metrics,
                                     [name |-> result.metric, passed |-> result.passed,
                                      blockOnFail |-> BlockOnFail(result)])])

\* the scores are exact quotients here; 0.85 is 85 percent
calculateSummary(results, filesAnalyzed, failOnWarnings) ==
    LET acc == SummaryLoop(results, 1,
                   [weightedScore |-> [num |-> 0, den |-> 1], totalWeight |-> 0,
                    blockers |-> 0, warnings |-> 0, metrics |-> <<>>])
        totalScore == IF acc.totalWeight > 0
                      THEN [num |-> acc.weightedScore.num,
                            den |-> acc.weightedScore.den * acc.totalWeight]
                      ELSE [num |-> 1, den |-> 1]
    IN  [filesAnalyzed |-> filesAnalyzed,
         totalScore |-> totalScore,
         passed |-> /\ acc.blockers = 0
                    /\ ~FractionBelow(totalScore, 85)
                    /\ (~failOnWarnings \/ acc.warnings = 0),
         blockers |-> acc.blockers,
         warnings |-> acc.warnings,
         results |-> results,
         metrics |-> acc.metrics]

\* calculateSummary(results, files.length, targetDir, failOnWarnings)
runValidation(in) ==
    calculateSummary(RunValidators(validatorsToRun(in.config), in.found),
                     Len(in.files), in.config.failOnWarnings)

\* the inputs of a run
RunnerConfigs ==
    [validators : { <<>>, << "supabase-auth" >>,
                    << "prisma-queries", "tenant-isolation", "prisma-queries" >>,
                    << "no-such-validator" >>,
                    << "exception-types", "no-such-validator" >> },
     sopFiles : { <<>>, << "2-supabase" >>, << "3-database-prisma", "2-supabase" >>,
                  << "no-such-sop" >>, << "8-api-design-patterns", "no-such-sop" >> },
     failOnWarnings : BOOLEAN]

RunnerFiles ==
    { <<>>,
      << [file |-> "a.ts", readable |-> TRUE] >>,
      << [file |-> "a.ts", readable |-> FALSE] >>,
      << [file |-> "a.ts", readable |-> TRUE], [file |-> "b.ts", readable |-> FALSE] >>,
      << [file |-> "a.ts", readable |-> TRUE], [file |-> "b.ts", readable |-> TRUE] >> }

Clean == [critical |-> 0, high |-> 0, medium |-> 0, warnings |-> 0, nest |-> 0, generic |-> 0]

FindingProfiles ==
    { [Clean EXCEPT !.critical = 1],
      [Clean EXCEPT !.critical = MaxCount],
      [Clean EXCEPT !.high = 1],
      [Clean EXCEPT !.medium = 1],
      [Clean EXCEPT !.warnings = 1],
      [Clean EXCEPT !.nest = 1],
      [Clean EXCEPT !.high = 1, !.generic = 1] }

\* the findings of the validators: at most one validator finds something
FoundMaps ==
    { [n \in DOMAIN ResultMetric |-> Clean] }
    \cup { [[n \in DOMAIN ResultMetric |-> Clean] EXCEPT ![v] = f] :
             v \in DOMAIN ResultMetric, f \in FindingProfiles }

\* the validators read the loaded files only: without one they find nothing
RunnerInputs ==
    { in \in [config : RunnerConfigs, files : RunnerFiles, found : FoundMaps] :
        readFileContents(in.files) = <<>> => \A n \in DOMAIN in.found : in.found[n] = Clean }

InitRunner ==
    /\ mode = "runner"
    /\ pc = "input"
    /\ vIn \in RunnerInputs
    /\ vOut = None
    /\ NoGating
    /\ NoScore
    /\ NoApply
    /\ NoLoop
    /\ NoPattern
    /\ NoProcess

RunValidation ==
    /\ mode = "runner"
    /\ pc = "input"
    /\ pc' = "done"
    /\ vOut' = runValidation(vIn)
    /\ UNCHANGED <<mode, vIn, gatingVars, scoreVars, applyVars, loopVars, patternVars, processVars>>

NextRunner == RunValidation

SpecRunner == InitRunner /\ [][NextRunner]_vars

\* a name of the request that names no validator, or no SOP
UnknownRequested ==
    \/ \E k \in DOMAIN vIn.config.validators : ~IsValidator(vIn.config.validators[k])
    \/ /\ vIn.config.validators = <<>>
       /\ \E k \in DOMAIN vIn.config.sopFiles :
             vIn.config.sopFiles[k] \notin DOMAIN SOP_VALIDATOR_MAP

\* C15, as claimed: a request naming an unknown validator or SOP runs no
\* validator and does not return a passing summary
UnknownNameIsFatal ==
    (mode = "runner" /\ pc = "done" /\ UnknownRequested) =>
        vOut.results = <<>> /\ ~vOut.passed

\* C16, as claimed: filesAnalyzed is the number of files whose content was
\* loaded, so an unreadable file is not counted
FilesAnalyzedCountsLoadedFiles ==
    (mode = "runner" /\ pc = "done") =>
        vOut.filesAnalyzed = Len(readFileContents(vIn.files))

\* the blocking validators that ran and whose result has passed = false
FailedBlocking ==
    { k \in DOMAIN BLOCK_ON_FAIL :
        \E j \in DOMAIN vOut.results :
            /\ vOut.results[j].metric = ResultMetric[BLOCK_ON_FAIL[k]]
            /\ ~vOut.results[j].passed }

\* C20, as claimed: the summary does not pass when the result of a blocking
\* validator has passed = false, and it passes only without blockers and
\* with a total score of at least 0.85
BlockingFailureFailsSummary ==
    (mode = "runner" /\ pc = "done") =>
        /\ FailedBlocking # {} => ~vOut.passed
        /\ vOut.passed => vOut.blockers = 0 /\ ~FractionBelow(vOut.totalScore, 85)

(***************************************************************************)
(* test-runner.ts: runTest. The files of the test case are given by what   *)
(* the validator of the test case finds in them.                           *)
(***************************************************************************)
TestCases ==
    [validator : DOMAIN ResultMetric \cup {"no-such-validator"},
     expectedViolations : 0 .. MaxCount,
     expectedWarnings : 0 .. MaxCount,
     shouldPass : BOOLEAN,
     found : FindingProfiles \cup {Clean}]

Expected(testCase) ==
    [violations |-> testCase.expectedViolations,
     warnings |-> testCase.expectedWarnings,
     shouldPass |-> testCase.shouldPass]

\* a plausible slip: result.passed is not compared
TestOutcomeCountsOnly(testCase, result) ==
    /\ result.violations = testCase.expectedViolations
    /\ result.warnings = testCase.expectedWarnings

\* violationMatch && warningMatch && passMatch
TestOutcome(testCase, result) ==
    /\ result.violations = testCase.expectedViolations
    /\ result.warnings = testCase.expectedWarnings
    /\ result.passed = testCase.shouldPass

runTest(testCase) ==
    IF ~IsValidator(testCase.validator)
    THEN [validator |-> testCase.validator,
          passed |-> FALSE,
          expected |-> Expected(testCase),
          actual |-> [violations |-> 0, warnings |-> 0, passed |-> FALSE],
          details |-> "not found"]
    ELSE Only({ [validator |-> testCase.validator,
                 passed |-> TestOutcome(testCase, result),
                 expected |-> Expected(testCase),
                 actual |-> [violations |-> result.violations,
                             warnings |-> result.warnings,
                             passed |-> result.passed],
                 details |-> IF TestOutcome(testCase, result) THEN None ELSE "issues"] :
               result \in { ValidationResult(testCase.validator, testCase.found) } })

InitTest ==
    /\ mode = "test"
    /\ pc = "input"
    /\ vIn \in TestCases
    /\ vOut = None
    /\ NoGating
    /\ NoScore
    /\ NoApply
    /\ NoLoop
    /\ NoPattern
    /\ NoProcess

RunTest ==
    /\ mode = "test"
    /\ pc = "input"
    /\ pc' = "done"
    /\ vOut' = runTest(vIn)
    /\ UNCHANGED <<mode, vIn, gatingVars, scoreVars, applyVars, loopVars, patternVars, processVars>>

NextTest == RunTest

SpecTest == InitTest /\ [][NextTest]_vars

\* C17: a test case passes exactly when its validator exists and the numbers
\* of violations and of warnings and the passed flag of the validator's
\* result equal the three expectations; for an unknown validator the test
\* fails with actual counts 0
TestPassesIffExpectationsMet ==
    (mode = "test" /\ pc = "done") =>
        IF IsValidator(vIn.validator)
        THEN /\ vOut.actual.violations = ViolationCount(vIn.found)
             /\ vOut.actual.warnings = vIn.found.warnings
             /\ vOut.actual.passed = PassedOf(vIn.validator, vIn.found)
             /\ vOut.passed <=> /\ vOut.actual.violations = vIn.expectedViolations
                                /\ vOut.actual.warnings = vIn.expectedWarnings
                                /\ vOut.actual.passed = vIn.shouldPass
        ELSE /\ ~vOut.passed
             /\ vOut.actual.violations = 0
             /\ vOut.actual.warnings = 0

\* a test case whose counts are as expected but whose passed flag is not
TestPassFlagWitness ==
    /\ mode = "test"
    /\ pc = "done"
    /\ IsValidator(vIn.validator)
    /\ vOut.actual.violations = vIn.expectedViolations
    /\ vOut.actual.violations > 0
    /\ vOut.actual.warnings = vIn.expectedWarnings
    /\ vOut.actual.passed # vIn.shouldPass
    /\ ~vOut.passed

\* C18, as claimed: the passed flag of a result is false when the result has
\* a violation and true when it has none
PassedIffNoViolation ==
    (mode = "validate" /\ pc = "done") =>
        \A n \in DOMAIN vOut : vOut[n].passed <=> vOut[n].violations = <<>>

(***************************************************************************)
(* validateTransactions. The content is one file of one or two functions,  *)
(* each with its head on one line, one statement per line and the closing  *)
(* brace on the last line; the validator reads the tokens of the content.  *)
(***************************************************************************)
FunctionHeads ==
    [h \in {"method", "destructured", "function", "sync"} |->
        CASE h = "method"       -> << "async createRolePlay(", "data", ")", "{" >>
          [] h = "destructured" -> << "async createRolePlay(", "{ name }", ")", "{" >>
          [] h = "function"     -> << "async function createRolePlay(", "data", ")", "{" >>
          [] h = "sync"         -> << "createRolePlay(", "data", ")", "{" >>]

Statements ==
    [st \in {"createRolePlay", "createAgentConfig", "updateRolePlay", "inTransaction", "return"} |->
        CASE st = "createRolePlay" ->
                << "await this.prisma.role_plays.create(", "{ data }", ")", ";" >>
          [] st = "createAgentConfig" ->
                << "await this.prisma.agent_configs.create(", "{ data }", ")", ";" >>
          [] st = "updateRolePlay" ->
                << "await this.prisma.role_plays.update(", "{ data }", ")", ";" >>
          [] st = "inTransaction" ->
                << "return this.prisma.$transaction(async (tx) =>", "{",
                   "tx.role_plays.create(", "{ data }", ")", ";",
                   "tx.agent_configs.create(", "{ data }", ")", ";", "})", ";" >>
          [] st = "return" -> << "return", "x", ";" >>]

RECURSIVE Bodies(_)
Bodies(n) ==
    IF n = 0 THEN { <<>> }
    ELSE LET shorter == Bodies(n - 1)
         IN  shorter \cup { Append(b, st) : b \in { x \in shorter : Len(x) = n - 1 },
                                            st \in DOMAIN Statements }

Functions == [head : DOMAIN FunctionHeads, body : Bodies(MaxLines)]

\* a second function, when there is one, has one of two bodies
SecondFunctions ==
    [head : DOMAIN FunctionHeads,
     body : { << "createRolePlay", "createAgentConfig" >>, << "return" >> }]

TransactionInputs ==
    { << f >> : f \in Functions } \cup { << f, g >> : f \in Functions, g \in SecondFunctions }

FunctionLines(f) ==
    << FunctionHeads[f.head] >> \o [k \in DOMAIN f.body |-> Statements[f.body[k]]] \o << << "}" >> >>

\* the content of the file
FunctionsText(fs) == Join(Flatten([k \in DOMAIN fs |-> FunctionLines(fs[k])]))

\* /async\s+(\w+)\s*\(: the word after async must be followed by the parenthesis
IsAsyncHead(t) == t = "async createRolePlay("

\* the braces of a token, in order
Braces ==
    [t \in {"{", "}", "{ name }", "{ data }", "})"} |->
        CASE t = "{" -> << "{" >>
          [] t = "}" -> << "}" >>
          [] t = "})" -> << "}" >>
          [] OTHER -> << "{", "}" >>]

BracesOf(t) == IF t \in DOMAIN Braces THEN Braces[t] ELSE <<>>

\* the first token from i on that holds a ')', or 0
RECURSIVE FirstCloseParen(_, _)
FirstCloseParen(text, i) ==
    IF i > Len(text) THEN 0
    ELSE IF text[i] \in {")", "})"} THEN i
    ELSE FirstCloseParen(text, i + 1)

\* the whole expression /async\s+(\w+)\s*\([^)]*\)\s*(?::\s*[^{]+)?\s*{/ matches at
\* token i: the parameters run to the first ')', and a '{' follows
HeadMatchesAt(text, i) ==
    /\ IsAsyncHead(text[i])
    /\ LET close == FirstCloseParen(text, i + 1)
       IN  /\ close # 0
           /\ text[close] = ")"
           /\ close < Len(text)
           /\ text[close + 1] = "{"

\* the loop over the characters from funcStart: the braces of one token
RECURSIVE CountBraces(_, _, _)
CountBraces(braces, k, st) ==
    IF k > Len(braces) \/ st.ended THEN st
    ELSE LET count == IF braces[k] = "{" THEN st.braceCount + 1 ELSE st.braceCount - 1
             started == st.started \/ braces[k] = "{"
         IN  CountBraces(braces, k + 1,
                         [braceCount |-> count, started |-> started,
                          ended |-> started /\ count = 0])

\* the token that holds funcEnd, or funcStart itself when the braces never balance
RECURSIVE FuncEndFrom(_, _, _, _)
FuncEndFrom(text, funcStart, i, st) ==
    IF i > Len(text) THEN funcStart
    ELSE LET after == CountBraces(BracesOf(text[i]), 1, st)
         IN  IF after.ended THEN i ELSE FuncEndFrom(text, funcStart, i + 1, after)

\* content.substring(funcStart, funcEnd): no token with a brace holds a
\* mutation or $transaction, so the part of the last token does not matter
FuncBody(text, funcStart) ==
    SubSeq(text, funcStart,
           FuncEndFrom(text, funcStart, funcStart,
                       [braceCount |-> 0, started |-> FALSE, ended |-> FALSE]) - 1)

\* prisma\.(\w+)\.create\(, ...update\(, ...delete\(: the table of a match
MutationTable ==
    [t \in {"await this.prisma.role_plays.create(", "await this.prisma.agent_configs.create(",
            "await this.prisma.role_plays.update("} |->
        IF t = "await this.prisma.agent_configs.create(" THEN "agent_configs" ELSE "role_plays"]

\* funcBody.includes('$transaction')
IncludesTransaction(t) == t = "return this.prisma.$transaction(async (tx) =>"

uniqueTables(funcBody) ==
    { MutationTable[funcBody[k]] : k \in { j \in DOMAIN funcBody : funcBody[j] \in DOMAIN MutationTable } }

TransactionsAt(text, i) ==
    IF /\ HeadMatchesAt(text, i)
       /\ Cardinality(uniqueTables(FuncBody(text, i))) > 1
       /\ ~ \E k \in DOMAIN FuncBody(text, i) : IncludesTransaction(FuncBody(text, i)[k])
    THEN << Violation("INV-PRISMA-TRANSACTION", LineOfToken(text, i), "high") >>
    ELSE <<>>

validateTransactions(text) ==
    Only({ [violations |-> violations,
            warnings |-> <<>>,
            score |-> validateTransactionsScore(
                          [critical |-> 0, high |-> Len(violations), medium |-> 0]),
            passed |-> Len(violations) = 0] :
           violations \in { Flatten([i \in DOMAIN text |-> TransactionsAt(text, i)]) } })

InitTransactions ==
    /\ mode = "transactions"
    /\ pc = "input"
    /\ vIn \in TransactionInputs
    /\ vOut = None
    /\ NoGating
    /\ NoScore
    /\ NoApply
    /\ NoLoop
    /\ NoPattern
    /\ NoProcess

ValidateTransactions ==
    /\ mode = "transactions"
    /\ pc = "input"
    /\ pc' = "done"
    /\ vOut' = validateTransactions(FunctionsText(vIn))
    /\ UNCHANGED <<mode, vIn, gatingVars, scoreVars, applyVars, loopVars, patternVars, processVars>>

NextTransactions == ValidateTransactions

SpecTransactions == InitTransactions /\ [][NextTransactions]_vars

\* what a function of the input is, by its construction
IsAsync(f) == f.head \in {"method", "destructured", "function"}

TablesMutated(f) ==
    { IF f.body[k] = "createAgentConfig" THEN "agent_configs" ELSE "role_plays" :
        k \in { j \in DOMAIN f.body :
                  f.body[j] \in {"createRolePlay", "createAgentConfig", "updateRolePlay"} } }

Offending(f) ==
    /\ IsAsync(f)
    /\ Cardinality(TablesMutated(f)) > 1
    /\ ~ \E k \in DOMAIN f.body : f.body[k] = "inTransaction"

\* the line of the head of the k-th function
RECURSIVE HeadLine(_, _)
HeadLine(fs, k) == IF k = 1 THEN 1 ELSE HeadLine(fs, k - 1) + Len(fs[k - 1].body) + 2

ViolationsAtLine(line) ==
    Cardinality({ k \in DOMAIN vOut.violations : vOut.violations[k].line = line })

\* C19, as claimed: each async function that mutates more than one table
\* without $transaction has exactly one violation, at its head; there is no
\* other violation; and passed says that there is no violation
OneViolationPerOffendingFunction ==
    (mode = "transactions" /\ pc = "done") =>
        /\ \A k \in DOMAIN vIn :
              ViolationsAtLine(HeadLine(vIn, k)) = (IF Offending(vIn[k]) THEN 1 ELSE 0)
        /\ Len(vOut.violations) = Cardinality({ k \in DOMAIN vIn : Offending(vIn[k]) })
        /\ vOut.passed <=> Len(vOut.violations) = 0

(***************************************************************************)
(* validateClaudeCode and hasBlockingViolations: one file, the validators  *)
(* chosen by its name. The lines are those of ClaudeLines; on them the     *)
(* four validators that run find what the definitions below say.           *)
(***************************************************************************)
ClaudeLines ==
    { << "const x = 1;" >>,
      << "throw new Error(", "'boom'", ")", ";" >>,
      << "throw new NotFoundException(", "'X not found'", ")", ";" >>,
      << "console.log(", "x", ")", ";" >>,
      << "this.logger.log(", "token", ")", ";" >>,
      << "// TODO" >>,
      << "const apiKey =", "'sk-abc'", ";" >> }

RECURSIVE ClaudeLineSeqs(_)
ClaudeLineSeqs(n) ==
    IF n = 0 THEN { <<>> }
    ELSE LET shorter == ClaudeLineSeqs(n - 1)
         IN  shorter \cup { Append(ls, l) : ls \in { x \in shorter : Len(x) = n - 1 },
                                            l \in ClaudeLines }

\* the file names, with what endsWith and includes find in them
FileNameParts ==
    [f \in {"util.ts", "auth.guard.ts"} |->
        IF f = "auth.guard.ts" THEN {"guard"} ELSE {}]

ClaudeInputs ==
    [code : { Join(ls) : ls \in ClaudeLineSeqs(MaxLines) }, filename : DOMAIN FileNameParts]

selectValidatorsForFile(filename) ==
    LET parts == FileNameParts[filename]
        chosen ==
            (IF ".service.ts" \in parts
             THEN << "exception-types", "logging", "prisma-queries", "transactions",
                     "tenant-isolation", "code-safety", "external-services", "code-quality" >>
             ELSE <<>>)
            \o (IF ".controller.ts" \in parts
                THEN << "api-design", "supabase-auth", "code-quality" >> ELSE <<>>)
            \o (IF "processor" \in parts \/ "consumer" \in parts
                THEN << "job-processing", "exception-types", "logging",
                        "tenant-isolation", "code-quality" >> ELSE <<>>)
            \o (IF "/dto/" \in parts THEN << "api-design", "code-quality" >> ELSE <<>>)
            \o (IF "repository" \in parts
                THEN << "prisma-queries", "transactions", "tenant-isolation", "code-quality" >>
                ELSE <<>>)
            \o (IF "guard" \in parts THEN << "supabase-auth", "code-quality" >> ELSE <<>>)
    IN  Deduplicate(IF chosen = <<>> THEN << "exception-types", "logging", "code-quality" >>
                    ELSE chosen, 1)

\* /['"]sk-[a-zA-Z0-9]+['"]/
IsHardcodedSecret(t) == t = "'sk-abc'"

\* /\/\/\s*(TODO|FIXME|HACK|XXX)/i
IsTodo(t) == t = "// TODO"

validateSupabaseAuthResult(ctx) ==
    Only({ [violations |-> violations, warnings |-> <<>>,
            score |-> validateSupabaseAuthScore(
                          [critical |-> Len(violations), high |-> 0, medium |-> 0]),
            passed |-> CountSeverity(violations, "critical") = 0] :
           violations \in { Flatten([k \in DOMAIN ctx |->
               InFile(ctx[k].file, validateSupabaseAuth(Split(ctx[k].content)))]) } })

LoggingLine(lines, i) ==
    IF \E t \in Tokens(lines[i]) : IsHardcodedSecret(t)
    THEN << Violation("INV-HARDCODED-SECRET", i, "critical") >>
    ELSE <<>>

validateLoggingResult(ctx) ==
    Only({ [violations |-> violations, warnings |-> <<>>,
            score |-> validateLoggingScore([critical |-> CountSeverity(violations, "critical")]),
            passed |-> CountSeverity(violations, "critical") = 0] :
           violations \in { Flatten([k \in DOMAIN ctx |->
               InFile(ctx[k].file,
                      Only({ Flatten([i \in DOMAIN lines |-> LoggingLine(lines, i)]) :
                             lines \in { Split(ctx[k].content) } }))]) } })

CodeQualityLine(lines, i) ==
    IF \E t \in Tokens(lines[i]) : IsTodo(t)
    THEN << [line |-> i, rule |-> "INV-TODO"] >>
    ELSE <<>>

validateCodeQualityResult(ctx) ==
    Only({ [violations |-> <<>>, warnings |-> warnings,
            score |-> validateCodeQualityScore(
                          [critical |-> 0, high |-> 0, medium |-> 0, warnings |-> Len(warnings)]),
            passed |-> TRUE] :
           warnings \in { Flatten([k \in DOMAIN ctx |->
               InFile(ctx[k].file,
                      Only({ Flatten([i \in DOMAIN lines |-> CodeQualityLine(lines, i)]) :
                             lines \in { Split(ctx[k].content) } }))]) } })

\* validators[validatorName](ctx), for the validators that the file names select
RunValidator(validatorName, ctx) ==
    CASE validatorName = "exception-types" -> validateExceptionTypesResult(ctx)
      [] validatorName = "supabase-auth"   -> validateSupabaseAuthResult(ctx)
      [] validatorName = "logging"         -> validateLoggingResult(ctx)
      [] validatorName = "code-quality"    -> validateCodeQualityResult(ctx)

\* metricDef?.blockOnFail ?? false
IsBlocker(validatorName) ==
    \E k \in DOMAIN METRIC_DEFINITIONS :
        METRIC_DEFINITIONS[k].name = validatorName /\ METRIC_DEFINITIONS[k].blockOnFail

\* metricDef?.weight ?? 0.05
ClaudeWeight(validatorName) ==
    IF validatorName \in MetricNames THEN MetricOf(validatorName).weight ELSE 1

\* the loop over validatorsToRun
RECURSIVE ClaudeLoop(_, _, _, _)
ClaudeLoop(names, ctx, i, acc) ==
    IF i > Len(names) THEN acc
    ELSE IF ~IsValidator(names[i]) THEN ClaudeLoop(names, ctx, i + 1, acc)
    ELSE Only({ ClaudeLoop(names, ctx, i + 1,
                  [allBlockers |-> acc.allBlockers
                       \o SelectSeq(result.violations,
                                    LAMBDA v : IsBlocker(names[i]) \/ v.severity = "critical"),
                   allWarnings |-> acc.allWarnings
                       \o SelectSeq(result.violations,
                                    LAMBDA v : ~(IsBlocker(names[i]) \/ v.severity = "critical"))
                       \o [k \in DOMAIN result.warnings |->
                             result.warnings[k] @@ [severity |-> "medium"]],
                   details |-> Append(acc.details,
                                      [name |-> names[i], score |-> result.score,
                                       passed |-> result.passed,
                                       isBlocker |-> IsBlocker(names[i])])]) :
                result \in { RunValidator(names[i], ctx) } })

RECURSIVE ClaudeScoreLoop(_, _, _, _)
ClaudeScoreLoop(details, i, totalScore, totalWeight) ==
    IF i > Len(details)
    THEN IF totalWeight > 0
         THEN [num |-> totalScore.num, den |-> totalScore.den * totalWeight]
         ELSE [num |-> 1, den |-> 1]
    ELSE ClaudeScoreLoop(details, i + 1,
                         AddWeighted(totalScore, details[i].score, ClaudeWeight(details[i].name)),
                         totalWeight + ClaudeWeight(details[i].name))

validateClaudeCode(input) ==
    Only({ [passed |-> acc.allBlockers = <<>> /\ ~FractionBelow(score, 85),
            score |-> score,
            blockers |-> acc.allBlockers,
            warnings |-> acc.allWarnings,
            details |-> acc.details] :
           acc \in { ClaudeLoop(selectValidatorsForFile(input.filename),
                                << [file |-> input.filename, content |-> input.code] >>, 1,
                                [allBlockers |-> <<>>, allWarnings |-> <<>>, details |-> <<>>]) },
           score \in { ClaudeScoreLoop(
                          ClaudeLoop(selectValidatorsForFile(input.filename),
                                     << [file |-> input.filename, content |-> input.code] >>, 1,
                                     [allBlockers |-> <<>>, allWarnings |-> <<>>,
                                      details |-> <<>>]).details,
                          1, [num |-> 0, den |-> 1], 0) } })

\* return !result.passed
hasBlockingViolations(input) == ~validateClaudeCode(input).passed

InitClaude ==
    /\ mode = "claude"
    /\ pc = "input"
    /\ vIn \in ClaudeInputs
    /\ vOut = None
    /\ NoGating
    /\ NoScore
    /\ NoApply
    /\ NoLoop
    /\ NoPattern
    /\ NoProcess

HasBlockingViolations ==
    /\ mode = "claude"
    /\ pc = "input"
    /\ pc' = "done"
    /\ vOut' = [result |-> validateClaudeCode(vIn),
                hasBlockingViolations |-> hasBlockingViolations(vIn)]
    /\ UNCHANGED <<mode, vIn, gatingVars, scoreVars, applyVars, loopVars, patternVars, processVars>>

NextClaude == HasBlockingViolations

SpecClaude == InitClaude /\ [][NextClaude]_vars

\* C21, as claimed: hasBlockingViolations is true exactly when
\* validateClaudeCode collects at least one blocker
BlockingIffBlockers ==
    (mode = "claude" /\ pc = "done") =>
        (vOut.hasBlockingViolations <=> vOut.result.blockers # <<>>)

\* ---------------------------------------------------------------------------
\* One process: the modules it loads and the validators its invocations run
\* ---------------------------------------------------------------------------

\* the invocations one behaviour records
MaxInvocations == 3

\* the modules that read the registry, and the modules each one imports
ModuleImports ==
    [ runner            |-> { },
      self_correction   |-> { "runner" },
      cli               |-> { } ]

\* the statements a module runs when it is loaded: the command line module
\* assigns the key 'general-practices' of the registry, a new last key unless
\* the key is there already
LoadEffect(moduleName, registry) ==
    IF moduleName = "cli"
       /\ ~ \E k \in DOMAIN registry : registry[k] = "general-practices"
    THEN Append(registry, "general-practices")
    ELSE registry

\* the operations that run every validator of the registry, with the module
\* that exports each
RunAllOperations ==
    [ runValidation     |-> "runner",
      applyFixes        |-> "self_correction",
      runCorrectionLoop |-> "self_correction",
      cliRunValidation  |-> "cli" ]

InitProcess ==
    /\ mode = "process"
    /\ pc = "running"
    /\ catalog = [ validators  |-> validators,
                   fixPatterns |-> [k \in DOMAIN FIX_PATTERNS |-> FIX_PATTERNS[k].rule] ]
    /\ modules = { }
    /\ invocations = <<>>
    /\ NoGating
    /\ NoScore
    /\ NoApply
    /\ NoLoop
    /\ NoPattern
    /\ NoValidate

\* a module is loaded once, after the modules it imports
LoadModule ==
    /\ mode = "process"
    /\ \E moduleName \in DOMAIN ModuleImports \ modules :
           /\ ModuleImports[moduleName] \subseteq modules
           /\ modules' = modules \cup { moduleName }
           /\ catalog' = [catalog EXCEPT
                            !.validators = LoadEffect(moduleName, catalog.validators)]
    /\ UNCHANGED <<mode, pc, invocations, gatingVars, scoreVars, applyVars, loopVars,
                   patternVars, validateVars>>

\* an operation of a loaded module runs every validator of the registry
RunAll ==
    /\ mode = "process"
    /\ Len(invocations) < MaxInvocations
    /\ \E operation \in DOMAIN RunAllOperations :
           /\ RunAllOperations[operation] \in modules
           /\ invocations' = Append(invocations,
                                    [operation |-> operation, ran |-> catalog.validators])
    /\ UNCHANGED <<mode, pc, catalog, modules, gatingVars, scoreVars, applyVars, loopVars,
                   patternVars, validateVars>>

NextProcess == LoadModule \/ RunAll

SpecProcess == InitProcess /\ [][NextProcess]_vars

\* C22, as claimed: every invocation that runs all validators, in one process,
\* runs the same validators as every other one
ValidatorsRunNeverChange ==
    mode = "process" =>
        \A i, j \in DOMAIN invocations : invocations[i].ran = invocations[j].ran

\* the result of a validator for file k of the context alone
AloneResult(n, k) ==
    IF n = "prisma-queries" THEN validatePrismaQueriesResult(<< vIn[k] >>)
    ELSE validateExceptionTypesResult(<< vIn[k] >>)

MaxScan == 4

ScanLines ==
    { << "async run(", ")", "{" >>,
      << "function f(", ")", "{", "}" >>,
      << "async", "(", ")", "=>", "{" >>,
      << "if (x)", "{" >>,
      << "}" >>,
      << "const x = 1", ";" >> }

RECURSIVE ScanLineSeqs(_)
ScanLineSeqs(n) ==
    IF n = 1 THEN { << l >> : l \in ScanLines }
    ELSE LET shorter == ScanLineSeqs(n - 1)
         IN  shorter \cup { Append(ls, l) : ls \in { x \in shorter : Len(x) = n - 1 },
                                            l \in ScanLines }

\* lines and an index into them, as forEach passes them
ScanInputs ==
    UNION { { [lines |-> ls, currentIndex |-> i] : i \in 0 .. Len(ls) - 1 } :
            ls \in ScanLineSeqs(MaxScan) }

\* (line.match(/}/g) || []).length, and the same for '{'
BraceMatches(line, brace) ==
    Len(SelectSeq(FlattenFrom([k \in DOMAIN line |-> BracesOf(line[k])], 1),
                  LAMBDA b : b = brace))

\* /async\s+\w+|function\s+\w+/.test(line): a word must follow the keyword
IsFunctionStart(line) ==
    \E k \in DOMAIN line : line[k] \in { "async run(", "function f(" }

\* a variant in which a function start at a positive balance ends the scan
RECURSIVE CheckInFunctionStopAtStart(_, _, _)
CheckInFunctionStopAtStart(lines, i, braceCount) ==
    IF i < 0 THEN FALSE
    ELSE LET line == lines[i + 1]
             count == braceCount + BraceMatches(line, "}") - BraceMatches(line, "{")
         IN  IF IsFunctionStart(line) THEN count <= 0
             ELSE CheckInFunctionStopAtStart(lines, i - 1, count)

\* for (let i = currentIndex; i >= 0; i--) with braceCount so far
RECURSIVE CheckInFunctionLoop(_, _, _)
CheckInFunctionLoop(lines, i, braceCount) ==
    IF i < 0 THEN FALSE
    ELSE LET line == lines[i + 1]
             count == braceCount + BraceMatches(line, "}") - BraceMatches(line, "{")
         IN  IF IsFunctionStart(line) /\ count <= 0 THEN TRUE
             ELSE CheckInFunctionLoop(lines, i - 1, count)

checkInFunction(lines, currentIndex) == CheckInFunctionLoop(lines, currentIndex, 0)

InitInFunction ==
    /\ mode = "inFunction"
    /\ pc = "input"
    /\ vIn \in ScanInputs
    /\ vOut = None
    /\ NoGating
    /\ NoScore
    /\ NoApply
    /\ NoLoop
    /\ NoPattern
    /\ NoProcess

CheckInFunction ==
    /\ mode = "inFunction"
    /\ pc = "input"
    /\ pc' = "done"
    /\ vOut' = checkInFunction(vIn.lines, vIn.currentIndex)
    /\ UNCHANGED <<mode, vIn, gatingVars, scoreVars, applyVars, loopVars, patternVars, processVars>>

NextInFunction == CheckInFunction

SpecInFunction == InitInFunction /\ [][NextInFunction]_vars

\* the '}' minus the '{' of the lines from index from to index to
RECURSIVE BalanceOver(_, _, _)
BalanceOver(lines, from, to) ==
    IF from > to THEN 0
    ELSE BraceMatches(lines[from + 1], "}") - BraceMatches(lines[from + 1], "{")
         + BalanceOver(lines, from + 1, to)

\* a function start at index j that the scan from the current index counts
CountedStart(j) ==
    /\ IsFunctionStart(vIn.lines[j + 1])
    /\ BalanceOver(vIn.lines, j, vIn.currentIndex) <= 0

\* C24: checkInFunction is true exactly when a line at or above the current
\* one is a function start and the braces from it to the current line,
\* its own included, close no more than they open
InFunctionIffStartAtBalance ==
    (mode = "inFunction" /\ pc = "done") =>
        (vOut <=> \E j \in 0 .. vIn.currentIndex : CountedStart(j))

\* the scan passes a function start at a positive balance and finds a
\* counted one above it
InFunctionPassesStart ==
    /\ mode = "inFunction"
    /\ pc = "done"
    /\ vOut
    /\ \E j, k \in 0 .. vIn.currentIndex :
           /\ j < k
           /\ CountedStart(j)
           /\ IsFunctionStart(vIn.lines[k + 1])
           /\ BalanceOver(vIn.lines, k, vIn.currentIndex) > 0

(***************************************************************************)
(* runValidation of the command line module (part_002). The module has     *)
(* been loaded, so the registry holds 'general-practices' as its last key. *)
(* The findings of each validator are an input; scores are in percent.     *)
(***************************************************************************)

\* the registry after the module body has run
cliValidators == LoadEffect("cli", validators)

CliMetric(name) ==
    IF name = "general-practices" THEN "general-best-practices" ELSE ResultMetric[name]

\* a score as a whole number of percent
WholePercent(score) == (score.num * 100) \div score.den

\* validator(ctx): metric and score of the result, the violations that are
\* critical or high, and the number of warnings
CliResult(name, f) ==
    [metric |-> CliMetric(name),
     score |-> WholePercent(ScoreOf(name, f)),
     criticalOrHigh |-> f.critical + f.high,
     violations |-> IF name = "general-practices" THEN f.critical + f.high
                    ELSE ViolationCount(f),
     warnings |-> f.warnings]

\* validatorsToRun: the requested names, else those of the SOP files, else
\* every key of the registry; then 'general-practices' when it is asked for
CliValidatorsToRun(options) ==
    LET requested == IF Len(options.validators) > 0 THEN options.validators
                     ELSE IF Len(options.sopFiles) > 0
                     THEN SopValidators(options.sopFiles, 1)
                     ELSE cliValidators
    IN  IF options.includeGeneral
           /\ ~ \E k \in DOMAIN requested : requested[k] = "general-practices"
        THEN Append(requested, "general-practices")
        ELSE requested

\* for (const name of validatorsToRun): a name without a validator is skipped
CliRunValidators(names, found) ==
    LET known == SelectSeq(names, LAMBDA n : \E k \in DOMAIN cliValidators :
                                                cliValidators[k] = n)
    IN  [k \in DOMAIN known |-> CliResult(known[k], found[known[k]])]

\* scores.set(result.metric, result.score) for each result, and the counters
RECURSIVE CliScoresLoop(_, _, _)
CliScoresLoop(results, i, acc) ==
    IF i > Len(results) THEN acc
    ELSE LET result == results[i]
         IN  CliScoresLoop(results, i + 1,
                 [scores |-> [n \in DOMAIN acc.scores \cup { result.metric } |->
                                 IF n = result.metric THEN result.score ELSE acc.scores[n]],
                  blockers |-> acc.blockers + result.criticalOrHigh,
                  warnings |-> acc.warnings + result.warnings])

\* METRIC_DEFINITIONS.find(m => m.name === name)?.weight ?? 0.05
CliWeight(name) ==
    IF name \in MetricNames
    THEN MetricOf(name).weight
    ELSE 1

\* for (const [name, score] of scores): totalScore and totalWeight
RECURSIVE CliTotalLoop(_, _, _)
CliTotalLoop(scores, names, acc) ==
    IF names = { } THEN acc
    ELSE LET name == CHOOSE n \in names : TRUE
         IN  CliTotalLoop(scores, names \ { name },
                 [totalScore |-> acc.totalScore + scores[name] * CliWeight(name),
                  totalWeight |-> acc.totalWeight + CliWeight(name)])

cliRunValidation(in) ==
    IF in.fileCount = 0
    THEN [results |-> <<>>,
          summary |-> [passed |-> TRUE, score |-> [num |-> 100, den |-> 1],
                       filesAnalyzed |-> 0, blockers |-> 0, warnings |-> 0,
                       message |-> "No files to validate"]]
    ELSE Only({ [results |-> results,
                 summary |-> [passed |-> gatingResult.passed,
                              score |-> IF total.totalWeight > 0
                                        THEN [num |-> total.totalScore,
                                              den |-> total.totalWeight]
                                        ELSE [num |-> 100, den |-> 1],
                              filesAnalyzed |-> in.fileCount,
                              blockers |-> acc.blockers,
                              warnings |-> acc.warnings,
                              message |-> gatingResult.reason]] :
                results \in { CliRunValidators(CliValidatorsToRun(in.options), in.found) },
                acc \in { CliScoresLoop(CliRunValidators(CliValidatorsToRun(in.options),
                                                         in.found), 1,
                                        [scores |-> << >>, blockers |-> 0, warnings |-> 0]) },
                gatingResult \in
                    { LET a == CliScoresLoop(CliRunValidators(
                                   CliValidatorsToRun(in.options), in.found), 1,
                                   [scores |-> << >>, blockers |-> 0, warnings |-> 0])
                      IN  evaluateGating(a.scores, a.blockers, a.warnings,
                                         IF in.options.strict THEN STRICT_GATING_CONFIG
                                         ELSE DEFAULT_GATING_CONFIG) },
                total \in
                    { LET a == CliScoresLoop(CliRunValidators(
                                   CliValidatorsToRun(in.options), in.found), 1,
                                   [scores |-> << >>, blockers |-> 0, warnings |-> 0])
                      IN  CliTotalLoop(a.scores, DOMAIN a.scores,
                                       [totalScore |-> 0, totalWeight |-> 0]) } })

CliOptions ==
    [validators : { <<>>, << "prisma-queries" >>, << "tenant-isolation", "code-quality" >>,
                    << "supabase-auth", "no-such-validator", "supabase-auth" >> },
     sopFiles : { <<>>, << "3-database-prisma" >>, << "2-supabase", "no-such-sop" >> },
     includeGeneral : BOOLEAN,
     strict : BOOLEAN]

\* the findings of the validators: at most one validator finds something;
\* the last profile is five findMany calls without orderBy
CliFoundMaps ==
    LET names == { cliValidators[k] : k \in DOMAIN cliValidators }
    IN  { [n \in names |-> Clean] }
        \cup { [[n \in names |-> Clean] EXCEPT ![v] = f] :
                 v \in names, f \in FindingProfiles }
        \cup { [[n \in names |-> Clean] EXCEPT ![v] = [Clean EXCEPT !.medium = 5]] :
                 v \in { "prisma-queries" } }

\* the validators read the loaded files only: without one they find nothing
CliInputs ==
    { in \in [options : CliOptions, fileCount : 0 .. 2, found : CliFoundMaps] :
        in.fileCount = 0 => \A n \in DOMAIN in.found : in.found[n] = Clean }

InitCli ==
    /\ mode = "cli"
    /\ pc = "input"
    /\ vIn \in CliInputs
    /\ vOut = None
    /\ NoGating
    /\ NoScore
    /\ NoApply
    /\ NoLoop
    /\ NoPattern
    /\ NoProcess

CliRunValidation ==
    /\ mode = "cli"
    /\ pc = "input"
    /\ pc' = "done"
    /\ vOut' = cliRunValidation(vIn)
    /\ UNCHANGED <<mode, vIn, gatingVars, scoreVars, applyVars, loopVars, patternVars, processVars>>

NextCli == CliRunValidation

SpecCli == InitCli /\ [][NextCli]_vars

\* the validators of the registry that a run of the command line ran
CliRan ==
    { n \in { cliValidators[k] : k \in DOMAIN cliValidators } :
        \E k \in DOMAIN CliValidatorsToRun(vIn.options) :
            CliValidatorsToRun(vIn.options)[k] = n }

\* C25, as claimed: when a blockOnFail validator that ran has a score below
\* its fail threshold, the verdict of the command line's run is fail
BlockingScoreFailsCliRun ==
    (mode = "cli" /\ pc = "done" /\ vIn.fileCount > 0) =>
        \A n \in CliRan \cap MetricNames :
            (/\ MetricOf(n).blockOnFail
             /\ WholePercent(ScoreOf(n, vIn.found[n])) < MetricOf(n).failT)
                => ~vOut.summary.passed

\* the minimumScore of the gating configuration of a run
CliMinimumScore ==
    IF vIn.options.strict THEN STRICT_GATING_CONFIG.minimumScore
    ELSE DEFAULT_GATING_CONFIG.minimumScore

\* C30, as claimed: the score the command line reports decides the
\* aggregate-score check: at or above minimumScore the run does not fail on
\* the total score, and below minimumScore the run does not pass
ReportedScoreIsGatedScore ==
    (mode = "cli" /\ pc = "done" /\ vIn.fileCount > 0) =>
        /\ ~QuotientBelow(vOut.summary.score, CliMinimumScore)
               => vOut.summary.message # "total"
        /\ QuotientBelow(vOut.summary.score, CliMinimumScore)
               => ~vOut.summary.passed

\* the result of the call of runCorrectionLoop that has just returned
LoopResult == Last(returned)

\* C26: the history has one entry per iteration, the first entry starts from
\* the input, each later one from the text the one before it produced, and the
\* returned content and violation count are those of the last entry
LoopResultIsLastIteration ==
    (mode = "loop" /\ pc = "done") =>
        LET history == LoopResult.correctionHistory
        IN  /\ Len(history) = LoopResult.iterations
            /\ history # <<>> =>
                  /\ history[1].original = call.content
                  /\ \A k \in 2 .. Len(history) :
                         history[k].original = history[k - 1].corrected
                  /\ LoopResult.finalContent = Last(history).corrected
                  /\ LoopResult.finalViolations = Len(Last(history).remainingViolations)

\* a run of two or more iterations that changed the text and was left by break
LoopResultWitness ==
    /\ mode = "loop"
    /\ pc = "done"
    /\ Len(LoopResult.correctionHistory) >= 2
    /\ Last(LoopResult.correctionHistory).appliedFixes = <<>>
    /\ LoopResult.finalContent # call.content
    /\ LoopResult.finalViolations > 0

\* the rules of a list of violations
RulesOf(violations) == { violations[k].rule : k \in DOMAIN violations }

\* the violations iteration k of the returned run started with
StartedWith(k) ==
    IF k = 1 THEN AllViolations(LoopResult.correctionHistory[1].original)
    ELSE LoopResult.correctionHistory[k - 1].remainingViolations

\* C27, as claimed: the loop returns no more violations than it found at the
\* start, and no iteration leaves a violation of a rule that the violations
\* it started with did not have
LoopNeverWorse ==
    (mode = "loop" /\ pc = "done") =>
        /\ LoopResult.finalViolations <= LoopResult.initialViolations
        /\ \A k \in DOMAIN LoopResult.correctionHistory :
               RulesOf(LoopResult.correctionHistory[k].remainingViolations)
                   \subseteq RulesOf(StartedWith(k))

\* C28: the returned success flag is true exactly when no violation is left;
\* a call on a text without violations runs no iteration, has an empty
\* history, returns the text as it was and succeeds
SuccessIffNoViolationLeft ==
    (mode = "loop" /\ pc = "done") =>
        /\ LoopResult.success <=> LoopResult.finalViolations = 0
        /\ AllViolations(call.content) = <<>> =>
              /\ LoopResult.iterations = 0
              /\ LoopResult.correctionHistory = <<>>
              /\ LoopResult.finalContent = call.content
              /\ LoopResult.success

\* a first run that fixed every violation, and a second run on its result,
\* which has no violation
SuccessWitness ==
    /\ mode = "loop"
    /\ pc = "done"
    /\ Len(returned) = 2
    /\ returned[1].iterations > 0
    /\ returned[1].success
    /\ AllViolations(call.content) = <<>>
    /\ LoopResult.success
    /\ call.config.maxIterations > 0

\* C29, as claimed: a call with autoFix = false returns the content it was
\* given, and no entry of its history changes the text or records a fix
AutoFixOffChangesNothing ==
    (mode = "loop" /\ pc = "done" /\ ~call.config.autoFix) =>
        /\ LoopResult.finalContent = call.content
        /\ \A k \in DOMAIN LoopResult.correctionHistory :
               /\ LoopResult.correctionHistory[k].appliedFixes = <<>>
               /\ LoopResult.correctionHistory[k].corrected =
                      LoopResult.correctionHistory[k].original

====
